---- MODULE Spec2Model ----
(***************************************************************************)
(* Stage-gate governance core: the validation engine (rule catalog, field  *)
(* validators, stage-order heuristics), the scorecard and violation store, *)
(* the alert store and the POST /validate route handler that ties them     *)
(* together.                                                               *)
(*                                                                         *)
(* JavaScript strings whose characters the code inspects (property values) *)
(* are sequences of one-character strings; identifiers (stage names, field *)
(* names, codes) are TLA+ strings.  Numbers the code computes with         *)
(* division are exact rationals <<numerator, denominator>>.                *)
(***************************************************************************)
EXTENDS Integers, Sequences, FiniteSets, TLC

VARIABLES
    request,          \* engine harness: the ValidationRequest under evaluation
    result,           \* engine harness: the ValidationResult returned for it
    scorecardStore,   \* Map<string, RepScorecard>
    violationStore,   \* Map<string, ComplianceViolation[]> (arrays of object references)
    violationObjects, \* the ComplianceViolation objects, by reference
    alertStore,       \* Map<string, GovernanceAlert>
    alertsByPortal,   \* Map<number, string[]>
    alertsByUser,     \* Map<string, string[]>
    generated,        \* number of ids handed out by generateId()
    now,              \* the wall clock, in days
    calls,            \* history: recordStageTransition calls per user since the last reset
    alertHistory,     \* history: every alert ever created, with its portal, user and acknowledgement
    arrived,          \* POST /validate requests received, each with its handler's position
    tokenStore,       \* Map<number, OAuthTokens>
    awaiting,         \* calls suspended at `await axios.post(HUBSPOT_TOKEN_URL, ...)`
    disconnected,     \* history: portals whose tokens were removed and not obtained again since
    lastCall          \* history: the last call that returned a value, with its arguments

vars == <<request, result, scorecardStore, violationStore, violationObjects,
          alertStore, alertsByPortal, alertsByUser, generated, now, calls, alertHistory,
          arrived, tokenStore, awaiting, disconnected, lastCall>>

engineVars == <<request, result>>
storeVars == <<scorecardStore, violationStore, violationObjects, generated, calls>>
alertVars == <<alertStore, alertsByPortal, alertsByUser, alertHistory>>
oauthVars == <<tokenStore, awaiting, disconnected>>
hostVars == <<arrived, oauthVars>>

(***************************************************************************)
(* JavaScript values of a property map: string | undefined.                *)
(***************************************************************************)
Undef == [t |-> "undefined", s |-> <<>>, n |-> 0]
Str(chars) == [t |-> "string", s |-> chars, n |-> 0]
Num(k) == [t |-> "number", s |-> <<>>, n |-> k]

Whitespace == {" ", "\t", "\n"}
Digits == {"0", "1", "2", "3", "4", "5", "6", "7", "8", "9"}

DigitVal(c) ==
    CASE c = "0" -> 0 [] c = "1" -> 1 [] c = "2" -> 2 [] c = "3" -> 3 [] c = "4" -> 4
      [] c = "5" -> 5 [] c = "6" -> 6 [] c = "7" -> 7 [] c = "8" -> 8 [] c = "9" -> 9

RECURSIVE Pow10(_)
Pow10(k) == IF k = 0 THEN 1 ELSE 10 * Pow10(k - 1)

(***************************************************************************)
(* Field/value validators.                                                 *)
(***************************************************************************)

\* /^[^\s@]+@[^\s@]+\.[^\s@]+$/ : some "@" at i and some "." at j split the
\* string into three non-empty runs free of whitespace and "@".
isValidEmail(email) ==
    LET len == Len(email)
        ok(c) == c \notin Whitespace /\ c # "@"
    IN \E i \in 1..len, j \in 1..len :
          /\ email[i] = "@"
          /\ email[j] = "."
          /\ 1 < i /\ i + 1 < j /\ j < len
          /\ \A k \in 1..len : k # i => ok(email[k])

isValidPhone(phone) ==
    LET cleaned == SelectSeq(phone, LAMBDA c : c \notin (Whitespace \cup {"-", "(", ")", ".", "/"}))
        body == IF cleaned # <<>> /\ Head(cleaned) = "+" THEN Tail(cleaned) ELSE cleaned
    IN /\ Len(body) >= 7 /\ Len(body) <= 15
       /\ \A k \in 1..Len(body) : body[k] \in Digits

isNonEmpty(value) ==
    IF value.t = "undefined" THEN FALSE
    ELSE IF value.t = "string" THEN \E k \in 1..Len(value.s) : value.s[k] \notin Whitespace
    ELSE TRUE

exists(value) == value.t # "undefined"

hasMinLength(value, minLength) == Len(value) >= minLength

RECURSIVE DigitPrefixLen(_)
DigitPrefixLen(s) ==
    IF s # <<>> /\ Head(s) \in Digits THEN 1 + DigitPrefixLen(Tail(s)) ELSE 0

RECURSIVE DigitsToNat(_)
DigitsToNat(s) ==
    IF s = <<>> THEN 0 ELSE 10 * DigitsToNat(SubSeq(s, 1, Len(s) - 1)) + DigitVal(s[Len(s)])

\* parseFloat on a string of digits, "." and "-": the longest prefix
\* [-]digits[.digits] with at least one digit; NaN otherwise.  The value is
\* n / 10^scale.
parseFloat(s) ==
    LET neg == s # <<>> /\ Head(s) = "-"
        s1 == IF neg THEN Tail(s) ELSE s
        il == DigitPrefixLen(s1)
        int == SubSeq(s1, 1, il)
        s2 == SubSeq(s1, il + 1, Len(s1))
        dot == s2 # <<>> /\ Head(s2) = "."
        s3 == IF dot THEN Tail(s2) ELSE <<>>
        fl == DigitPrefixLen(s3)
        frac == SubSeq(s3, 1, fl)
        mag == DigitsToNat(int \o frac)
    IN IF il + fl = 0 THEN [nan |-> TRUE, n |-> 0, scale |-> 0]
       ELSE [nan |-> FALSE, n |-> IF neg THEN 0 - mag ELSE mag, scale |-> fl]

parseNumeric(value) ==
    IF value.t = "number" THEN [nan |-> FALSE, n |-> value.n, scale |-> 0]
    ELSE IF value.t = "string"
         THEN LET parsed == parseFloat(SelectSeq(value.s, LAMBDA c : c \in (Digits \cup {".", "-"})))
              IN IF parsed.nan THEN [nan |-> FALSE, n |-> 0, scale |-> 0] ELSE parsed
    ELSE [nan |-> FALSE, n |-> 0, scale |-> 0]

\* String.prototype.includes
includes(hay, needle) ==
    \E i \in 0..(Len(hay) - Len(needle)) : SubSeq(hay, i + 1, i + Len(needle)) = needle

\* String.prototype.toUpperCase on the field names of the catalog
toUpperCase(field) ==
    CASE field = "email" -> "EMAIL"
      [] field = "firstname" -> "FIRSTNAME"
      [] field = "lastname" -> "LASTNAME"
      [] field = "company" -> "COMPANY"
      [] field = "phone" -> "PHONE"
      [] field = "hubspot_owner_id" -> "HUBSPOT_OWNER_ID"
      [] field = "hs_lead_status" -> "HS_LEAD_STATUS"
      [] field = "dealname" -> "DEALNAME"
      [] field = "amount" -> "AMOUNT"
      [] field = "closedate" -> "CLOSEDATE"

(***************************************************************************)
(* Stage rank tables, in declaration order (the order of Object.entries).  *)
(***************************************************************************)
LIFECYCLE_STAGE_ORDER ==
    << <<"subscriber", 0>>, <<"lead", 1>>, <<"marketingqualifiedlead", 2>>,
       <<"salesqualifiedlead", 3>>, <<"opportunity", 4>>, <<"customer", 5>>,
       <<"evangelist", 6>>, <<"other", 7>> >>

DEAL_STAGE_ORDER ==
    << <<"appointmentscheduled", 0>>, <<"qualifiedtobuy", 1>>, <<"presentationscheduled", 2>>,
       <<"decisionmakerboughtin", 3>>, <<"contractsent", 4>>, <<"closedwon", 5>>,
       <<"closedlost", 6>> >>

\* The rank tables are object literals: a key they do not own resolves along
\* the prototype chain, so "constructor" and "toString" yield the functions
\* of Object.prototype.  prim is what ToPrimitive gives for them, as UTF-16
\* code units: "function Object() { [native code] }" and
\* "function toString() { [native code] }".
ObjectPrototype ==
    [constructor |-> <<102, 117, 110, 99, 116, 105, 111, 110, 32, 79, 98, 106, 101, 99, 116,
                       40, 41, 32, 123, 32, 91, 110, 97, 116, 105, 118, 101, 32, 99, 111,
                       100, 101, 93, 32, 125>>,
     toString |-> <<102, 117, 110, 99, 116, 105, 111, 110, 32, 116, 111, 83, 116, 114, 105,
                    110, 103, 40, 41, 32, 123, 32, 91, 110, 97, 116, 105, 118, 101, 32, 99,
                    111, 100, 101, 93, 32, 125>>]

OrdUndefined == [t |-> "undefined", n |-> 0, prim |-> <<>>]
OrdNumber(k) == [t |-> "number", n |-> k, prim |-> <<>>]
OrdObject(p) == [t |-> "object", n |-> 0, prim |-> p]
OrdString(p) == [t |-> "string", n |-> 0, prim |-> p]

Own(table, key) == \E i \in 1..Len(table) : table[i][1] = key

\* stageOrder[key]
PropertyGet(table, key) ==
    IF Own(table, key)
    THEN OrdNumber(table[CHOOSE i \in 1..Len(table) : table[i][1] = key][2])
    ELSE IF key \in DOMAIN ObjectPrototype THEN OrdObject(ObjectPrototype[key])
    ELSE OrdUndefined

RECURSIVE LexLess(_, _)
LexLess(a, b) ==
    IF b = <<>> THEN FALSE
    ELSE IF a = <<>> THEN TRUE
    ELSE IF Head(a) < Head(b) THEN TRUE
    ELSE IF Head(a) > Head(b) THEN FALSE
    ELSE LexLess(Tail(a), Tail(b))

\* x < y of JavaScript: two string primitives compare by code units, two
\* numbers numerically; a number against one of these strings is a
\* comparison with NaN, which is false.
JsLess(x, y) ==
    IF x.t \in {"object", "string"} /\ y.t \in {"object", "string"} THEN LexLess(x.prim, y.prim)
    ELSE IF x.t = "number" /\ y.t = "number" THEN x.n < y.n
    ELSE FALSE

\* x + 1 of JavaScript: addition on a number, concatenation of "1" on an object
JsPlusOne(x) ==
    IF x.t = "number" THEN OrdNumber(x.n + 1)
    ELSE IF x.t \in {"object", "string"} THEN OrdString(x.prim \o <<49>>)
    ELSE OrdUndefined

stageOrderOf(objectType) ==
    IF objectType = "contact" THEN LIFECYCLE_STAGE_ORDER ELSE DEAL_STAGE_ORDER

(***************************************************************************)
(* Rule catalog.  An absent conditions/dependencies list is the empty      *)
(* sequence: the engine only iterates them.                                *)
(***************************************************************************)
Field(field, label, type, errorMessage) ==
    [field |-> field, label |-> label, type |-> type, minLength |-> 0,
     errorMessage |-> errorMessage]

lifecycleStageRules ==
    << [id |-> "lifecycle-lead-to-mql", name |-> "Lead to MQL Transition",
        fromStage |-> "lead", toStage |-> "marketingqualifiedlead",
        requiredFields |->
          << Field("email", "Email", "email", "Valid email is required"),
             Field("firstname", "First Name", "non_empty", "First name is required"),
             Field("lastname", "Last Name", "non_empty", "Last name is required"),
             Field("company", "Company", "non_empty", "Company name is required") >>,
        dependencies |-> <<>>, conditions |-> <<>>, active |-> TRUE],
       [id |-> "lifecycle-mql-to-sql", name |-> "MQL to SQL Transition",
        fromStage |-> "marketingqualifiedlead", toStage |-> "salesqualifiedlead",
        requiredFields |->
          << Field("phone", "Phone", "phone", "Valid phone number is required"),
             Field("hubspot_owner_id", "Contact Owner", "required", "Contact owner must be assigned") >>,
        dependencies |-> <<>>,
        conditions |->
          << [field |-> "hs_lead_status", operator |-> "exists", value |-> Undef,
              errorMessage |-> "Lead status must be set before SQL promotion"] >>,
        active |-> TRUE],
       [id |-> "lifecycle-sql-to-opportunity", name |-> "SQL to Opportunity Transition",
        fromStage |-> "salesqualifiedlead", toStage |-> "opportunity",
        requiredFields |->
          << Field("hubspot_owner_id", "Contact Owner", "required", "Contact owner must be assigned") >>,
        dependencies |->
          << [type |-> "association", target |-> "deal", condition |-> "exists",
              errorMessage |-> "Contact must be associated with at least one deal"] >>,
        conditions |-> <<>>, active |-> TRUE],
       [id |-> "lifecycle-opportunity-to-customer", name |-> "Opportunity to Customer Transition",
        fromStage |-> "opportunity", toStage |-> "customer",
        requiredFields |-> <<>>,
        dependencies |->
          << [type |-> "association", target |-> "deal", condition |-> "closed_won",
              errorMessage |-> "Contact must have at least one closed-won deal"] >>,
        conditions |-> <<>>, active |-> TRUE] >>

dealStageRules ==
    << [id |-> "deal-appointment-to-qualified", name |-> "Appointment to Qualified Transition",
        fromStage |-> "appointmentscheduled", toStage |-> "qualifiedtobuy",
        requiredFields |->
          << Field("dealname", "Deal Name", "non_empty", "Deal name is required"),
             Field("amount", "Deal Amount", "required", "Deal amount must be set"),
             Field("hubspot_owner_id", "Deal Owner", "required", "Deal owner must be assigned") >>,
        dependencies |-> <<>>, conditions |-> <<>>, active |-> TRUE],
       [id |-> "deal-qualified-to-presentation", name |-> "Qualified to Presentation Transition",
        fromStage |-> "qualifiedtobuy", toStage |-> "presentationscheduled",
        requiredFields |->
          << Field("closedate", "Close Date", "required", "Expected close date must be set") >>,
        dependencies |->
          << [type |-> "association", target |-> "contact", condition |-> "exists",
              errorMessage |-> "Deal must be associated with at least one contact"] >>,
        conditions |-> <<>>, active |-> TRUE],
       [id |-> "deal-presentation-to-decision", name |-> "Presentation to Decision Maker Transition",
        fromStage |-> "presentationscheduled", toStage |-> "decisionmakerboughtin",
        requiredFields |-> <<>>,
        dependencies |-> <<>>,
        conditions |->
          << [field |-> "amount", operator |-> "greater_than", value |-> Num(0),
              errorMessage |-> "Deal amount must be greater than zero"] >>,
        active |-> TRUE],
       [id |-> "deal-decision-to-contract", name |-> "Decision Maker to Contract Sent Transition",
        fromStage |-> "decisionmakerboughtin", toStage |-> "contractsent",
        requiredFields |-> <<>>,
        dependencies |-> <<>>, conditions |-> <<>>, active |-> TRUE],
       [id |-> "deal-contract-to-won", name |-> "Contract Sent to Closed Won Transition",
        fromStage |-> "contractsent", toStage |-> "closedwon",
        requiredFields |->
          << Field("amount", "Deal Amount", "required", "Final deal amount must be set"),
             Field("closedate", "Close Date", "required", "Close date must be set") >>,
        dependencies |-> <<>>, conditions |-> <<>>, active |-> TRUE] >>

getRulesForObjectType(objectType) ==
    SelectSeq(IF objectType = "contact" THEN lifecycleStageRules ELSE dealStageRules,
              LAMBDA rule : rule.active)

getRuleForTransitionByTargetStage(objectType, fromStage, toStage) ==
    LET rules == getRulesForObjectType(objectType)
        hits == SelectSeq(rules, LAMBDA rule : rule.toStage = toStage)
    IN IF hits = <<>> THEN <<>> ELSE <<Head(hits)>>

\* Array.prototype.find: <<the first match>>, or <<>> for undefined
getRuleForTransition(objectType, fromStage, toStage) ==
    LET rules == getRulesForObjectType(objectType)
        hits == SelectSeq(rules, LAMBDA rule : rule.fromStage = fromStage /\ rule.toStage = toStage)
    IN IF hits = <<>> THEN <<>> ELSE <<Head(hits)>>

(***************************************************************************)
(* Validation engine.                                                      *)
(***************************************************************************)
Null == [code |-> "null", message |-> "", recommendation |-> ""]

checkBackwardProgressionReversed(req) ==
    LET stageOrder == stageOrderOf(req.objectType)
        currentOrder == PropertyGet(stageOrder, req.currentStage)
        targetOrder == PropertyGet(stageOrder, req.targetStage)
    IN IF /\ currentOrder.t # "undefined"
          /\ targetOrder.t # "undefined"
          /\ JsLess(currentOrder, targetOrder)
       THEN [code |-> "BACKWARD_PROGRESSION",
             message |-> "Moving from " \o req.currentStage \o " to " \o req.targetStage
                           \o " is a backward progression",
             recommendation |->
               "Backward progressions may require manager approval. Ensure this is intentional."]
       ELSE Null

checkBackwardProgression(req) ==
    LET stageOrder == stageOrderOf(req.objectType)
        currentOrder == PropertyGet(stageOrder, req.currentStage)
        targetOrder == PropertyGet(stageOrder, req.targetStage)
    IN IF /\ currentOrder.t # "undefined"
          /\ targetOrder.t # "undefined"
          /\ JsLess(targetOrder, currentOrder)
       THEN [code |-> "BACKWARD_PROGRESSION",
             message |-> "Moving from " \o req.currentStage \o " to " \o req.targetStage
                           \o " is a backward progression",
             recommendation |->
               "Backward progressions may require manager approval. Ensure this is intentional."]
       ELSE Null

\* Array.prototype.join(', ')
RECURSIVE join(_)
join(names) ==
    IF names = <<>> THEN ""
    ELSE IF Len(names) = 1 THEN names[1]
    ELSE names[1] \o ", " \o join(Tail(names))

checkSkippedStagesInclusive(req) ==
    LET stageOrder == stageOrderOf(req.objectType)
        currentOrder == PropertyGet(stageOrder, req.currentStage)
        targetOrder == PropertyGet(stageOrder, req.targetStage)
        between == SelectSeq(stageOrder,
                             LAMBDA entry : /\ ~JsLess(OrdNumber(entry[2]), currentOrder)
                                            /\ JsLess(OrdNumber(entry[2]), targetOrder))
        skipped == [i \in 1..Len(between) |-> between[i][1]]
    IN IF /\ currentOrder.t # "undefined"
          /\ targetOrder.t # "undefined"
          /\ JsLess(JsPlusOne(currentOrder), targetOrder)
          /\ Len(skipped) > 0
       THEN [code |-> "SKIPPED_STAGES",
             message |-> "Skipping stages: " \o join(skipped),
             recommendation |-> "Consider whether all stage requirements have been met."]
       ELSE Null

checkSkippedStages(req) ==
    LET stageOrder == stageOrderOf(req.objectType)
        currentOrder == PropertyGet(stageOrder, req.currentStage)
        targetOrder == PropertyGet(stageOrder, req.targetStage)
        between == SelectSeq(stageOrder,
                             LAMBDA entry : /\ JsLess(currentOrder, OrdNumber(entry[2]))
                                            /\ JsLess(OrdNumber(entry[2]), targetOrder))
        skipped == [i \in 1..Len(between) |-> between[i][1]]
    IN IF /\ currentOrder.t # "undefined"
          /\ targetOrder.t # "undefined"
          /\ JsLess(JsPlusOne(currentOrder), targetOrder)
          /\ Len(skipped) > 0
       THEN [code |-> "SKIPPED_STAGES",
             message |-> "Skipping stages: " \o join(skipped),
             recommendation |-> "Consider whether all stage requirements have been met."]
       ELSE Null

\* the switch on rule.type
FieldPasses(rule, value) ==
    CASE rule.type = "required" -> exists(value)
      [] rule.type = "non_empty" -> isNonEmpty(value)
      [] rule.type = "email" -> value.t = "string" /\ isValidEmail(value.s)
      [] rule.type = "phone" -> value.t = "string" /\ isValidPhone(value.s)
      [] rule.type = "min_length" -> value.t = "string" /\ hasMinLength(value.s, rule.minLength)
      [] OTHER -> TRUE

FieldErrorMessage(rule) ==
    IF rule.errorMessage # "" THEN rule.errorMessage
    ELSE CASE rule.type = "required" -> rule.label \o " is required"
           [] rule.type = "non_empty" -> rule.label \o " cannot be empty"
           [] rule.type = "email" -> rule.label \o " must be a valid email"
           [] rule.type = "phone" -> rule.label \o " must be a valid phone number"
           [] OTHER -> rule.label \o " is invalid"

validateRequiredFieldsFirstOnly(rules, properties) ==
    LET failing == SelectSeq(rules, LAMBDA rule : ~FieldPasses(rule, properties[rule.field]))
    IN IF failing = <<>> THEN <<>>
       ELSE << [code |-> "INVALID_" \o toUpperCase(failing[1].field),
                message |-> FieldErrorMessage(failing[1]),
                field |-> failing[1].field,
                currentValue |-> properties[failing[1].field]] >>

RECURSIVE validateRequiredFields(_, _)
validateRequiredFields(rules, properties) ==
    IF rules = <<>> THEN <<>>
    ELSE LET rule == Head(rules)
             value == properties[rule.field]
         IN (IF ~FieldPasses(rule, value)
             THEN << [code |-> "INVALID_" \o toUpperCase(rule.field),
                      message |-> FieldErrorMessage(rule),
                      field |-> rule.field,
                      currentValue |-> value] >>
             ELSE <<>>)
            \o validateRequiredFields(Tail(rules), properties)

\* the switch on condition.operator
ConditionPasses(condition, value) ==
    CASE condition.operator = "equals" -> value = condition.value
      [] condition.operator = "not_equals" -> value # condition.value
      [] condition.operator = "contains" ->
           /\ value.t = "string"
           /\ condition.value.t = "string"
           /\ includes(value.s, condition.value.s)
      [] condition.operator = "greater_than" ->
           /\ condition.value.t = "number"
           /\ parseNumeric(value).n > condition.value.n * Pow10(parseNumeric(value).scale)
      [] condition.operator = "less_than" ->
           /\ condition.value.t = "number"
           /\ parseNumeric(value).n < condition.value.n * Pow10(parseNumeric(value).scale)
      [] condition.operator = "exists" -> exists(value) /\ isNonEmpty(value)
      [] OTHER -> TRUE

RECURSIVE validateConditions(_, _)
validateConditions(conditions, properties) ==
    IF conditions = <<>> THEN <<>>
    ELSE LET condition == Head(conditions)
             value == properties[condition.field]
         IN (IF ~ConditionPasses(condition, value)
             THEN << [code |-> "CONDITION_FAILED_" \o toUpperCase(condition.field),
                      message |-> condition.errorMessage,
                      field |-> condition.field,
                      currentValue |-> value] >>
             ELSE <<>>)
            \o validateConditions(Tail(conditions), properties)

validateStageTransitionWithDependencies(req) ==
    LET backwardResult == checkBackwardProgression(req)
        skippedResult == checkSkippedStages(req)
        warnings == (IF backwardResult # Null THEN <<backwardResult>> ELSE <<>>)
                    \o (IF skippedResult # Null THEN <<skippedResult>> ELSE <<>>)
        rule == getRuleForTransition(req.objectType, req.currentStage, req.targetStage)
        errors == IF rule # <<>>
                  THEN validateRequiredFields(rule[1].requiredFields, req.properties)
                       \o validateConditions(rule[1].conditions, req.properties)
                       \o [i \in 1..Len(rule[1].dependencies) |->
                             [code |-> "DEPENDENCY_FAILED",
                              message |-> rule[1].dependencies[i].errorMessage,
                              field |-> rule[1].dependencies[i].target,
                              currentValue |-> Undef]]
                  ELSE <<>>
    IN [isValid |-> Len(errors) = 0, errors |-> errors, warnings |-> warnings]

validateStageTransitionWarningsBlock(req) ==
    LET backwardResult == checkBackwardProgression(req)
        skippedResult == checkSkippedStages(req)
        warnings == (IF backwardResult # Null THEN <<backwardResult>> ELSE <<>>)
                    \o (IF skippedResult # Null THEN <<skippedResult>> ELSE <<>>)
        rule == getRuleForTransition(req.objectType, req.currentStage, req.targetStage)
        errors == IF rule # <<>>
                  THEN validateRequiredFields(rule[1].requiredFields, req.properties)
                       \o validateConditions(rule[1].conditions, req.properties)
                  ELSE <<>>
    IN [isValid |-> Len(errors) = 0 /\ Len(warnings) = 0, errors |-> errors, warnings |-> warnings]

validateStageTransition(req) ==
    LET backwardResult == checkBackwardProgression(req)
        skippedResult == checkSkippedStages(req)
        warnings == (IF backwardResult # Null THEN <<backwardResult>> ELSE <<>>)
                    \o (IF skippedResult # Null THEN <<skippedResult>> ELSE <<>>)
        rule == getRuleForTransition(req.objectType, req.currentStage, req.targetStage)
        errors == IF rule # <<>>
                  THEN validateRequiredFields(rule[1].requiredFields, req.properties)
                       \o validateConditions(rule[1].conditions, req.properties)
                  ELSE <<>>
    IN [isValid |-> Len(errors) = 0, errors |-> errors, warnings |-> warnings]

(***************************************************************************)
(* Inputs of the engine harness.                                           *)
(***************************************************************************)
\* the values tried for each property
FieldValues(field) ==
    CASE field = "email" -> {Undef, Str(<<"a", "@", "b", ".", "c">>), Str(<<"a", "@", "b">>)}
      [] field = "firstname" -> {Undef, Str(<<"J", "o">>), Str(<<" ">>)}
      [] field = "lastname" -> {Undef, Str(<<"D", "o">>)}
      [] field = "company" -> {Undef, Str(<<"A", "c">>)}
      [] field = "phone" -> {Undef, Str(<<"(", "5", "5", "5", ")", " ", "5", "5", "5", "5">>),
                             Str(<<"1", "2", "3">>)}
      [] field = "hubspot_owner_id" -> {Undef, Str(<<"4", "2">>)}
      [] field = "hs_lead_status" -> {Undef, Str(<<>>), Str(<<"N", "E", "W">>)}
      [] field = "dealname" -> {Undef, Str(<<>>), Str(<<"B", "i", "g">>)}
      [] field = "amount" -> {Undef, Str(<<"1", "0", "0">>), Str(<<"0">>), Str(<<"-", "5", "0">>),
                              Str(<<"$", "1", ",", "0", "0", "0", ".", "5", "0">>)}
      [] field = "closedate" -> {Undef, Str(<<"2", "0", "2", "4">>)}

\* property maps carrying the properties of the object type, the others absent
PropertyMaps(objectType) ==
    IF objectType = "contact"
    THEN [email : FieldValues("email"), firstname : FieldValues("firstname"),
          lastname : FieldValues("lastname"), company : FieldValues("company"),
          phone : FieldValues("phone"), hubspot_owner_id : FieldValues("hubspot_owner_id"),
          hs_lead_status : FieldValues("hs_lead_status"),
          dealname : {Undef}, amount : {Undef}, closedate : {Undef}]
    ELSE [email : {Undef}, firstname : {Undef}, lastname : {Undef}, company : {Undef},
          phone : {Undef}, hubspot_owner_id : FieldValues("hubspot_owner_id"),
          hs_lead_status : {Undef},
          dealname : FieldValues("dealname"), amount : FieldValues("amount"),
          closedate : FieldValues("closedate")]

\* a custom pipeline stage, and two names Object.prototype knows
OtherStages == {"custompipelinestage", "constructor", "toString"}

StagesOf(objectType) ==
    {stageOrderOf(objectType)[i][1] : i \in 1..Len(stageOrderOf(objectType))} \cup OtherStages

Requests ==
    UNION {[objectType : {ot}, objectId : {"12345"}, currentStage : StagesOf(ot),
            targetStage : StagesOf(ot), properties : PropertyMaps(ot)] : ot \in {"contact", "deal"}}

NoRequest == [objectType |-> "none"]
NoResult == [isValid |-> FALSE, errors |-> <<>>, warnings |-> <<>>, pending |-> TRUE]

EmptyMap == [k \in {} |-> 0]

\* lastCall when the last step returned nothing the properties read
NoCall == [op |-> "none"]

InitStores ==
    /\ scorecardStore = EmptyMap
    /\ violationStore = EmptyMap
    /\ violationObjects = EmptyMap
    /\ alertStore = EmptyMap
    /\ alertsByPortal = EmptyMap
    /\ alertsByUser = EmptyMap
    /\ generated = 0
    /\ now = 0
    /\ calls = EmptyMap
    /\ alertHistory = EmptyMap
    /\ arrived = <<>>
    /\ tokenStore = EmptyMap
    /\ awaiting = <<>>
    /\ disconnected = {}
    /\ lastCall = NoCall

(***************************************************************************)
(* Bounds of the store and route harnesses.                                *)
(***************************************************************************)
MaxTransitions == 2   \* recordStageTransition calls per user and period
MaxViolations == 2    \* ComplianceViolation objects ever created
MaxAlerts == 2        \* GovernanceAlert objects ever created
MaxFields == 1        \* largest totalFields passed to updateFieldsCompliance
ClockStep == 8        \* days the clock advances at a time
MaxTime == 8          \* last day the clock reaches

Users == {"u1", "u2"}
UserNames == {"Test User"}
NoDate == 0 - 1       \* an undefined Date
NoArg == "<undefined>"  \* an optional string argument left out

(***************************************************************************)
(* Maps and exact arithmetic.                                              *)
(***************************************************************************)
Has(map, key) == key \in DOMAIN map

Put(map, key, value) ==
    [k \in DOMAIN map \cup {key} |-> IF k = key THEN value ELSE map[k]]

\* map.get(key) || []
GetList(map, key) == IF Has(map, key) THEN map[key] ELSE <<>>

Abs(x) == IF x < 0 THEN 0 - x ELSE x

RECURSIVE GCD(_, _)
GCD(a, b) == IF b = 0 THEN a ELSE GCD(b, a % b)

Rat(n, d) ==
    LET g == GCD(Abs(n), d)
    IN IF n = 0 THEN <<0, 1>> ELSE <<n \div g, d \div g>>

RatAdd(a, b) == Rat(a[1] * b[2] + b[1] * a[2], a[2] * b[2])
RatMul(a, b) == Rat(a[1] * b[1], a[2] * b[2])
RatLeq(a, b) == a[1] * b[2] <= b[1] * a[2]

(***************************************************************************)
(* Scorecard and violation store.                                          *)
(***************************************************************************)
\* startOfWeek/endOfWeek of the clock's week; day 0 is a Sunday
getCurrentPeriod(clock) ==
    [startDate |-> clock - (clock % 7), endDate |-> clock - (clock % 7) + 6, type |-> "weekly"]

createEmptyMetrics ==
    [totalStageTransitions |-> 0,
     validTransitions |-> 0,
     invalidAttempts |-> 0,
     requiredFieldsCompliance |-> Rat(100, 1),
     averageStageVelocity |-> 0,
     dealsStagedCorrectly |-> 0,
     contactsStagedCorrectly |-> 0]

\* the scorecard store after getOrCreateScorecard(userId, userName)
getOrCreateScorecard(store, userId, userName, clock) ==
    IF Has(store, userId) THEN store
    ELSE Put(store, userId,
             [userId |-> userId,
              userName |-> userName,
              period |-> getCurrentPeriod(clock),
              metrics |-> createEmptyMetrics,
              complianceScore |-> Rat(100, 1),
              trend |-> "stable",
              violations |-> <<>>,
              lastUpdated |-> clock])

calculateComplianceScoreSwappedWeights(metrics) ==
    IF metrics.totalStageTransitions = 0 THEN Rat(100, 1)
    ELSE LET transitionScore ==
               RatMul(Rat(metrics.validTransitions, metrics.totalStageTransitions), Rat(100, 1))
             fieldScore == metrics.requiredFieldsCompliance
         IN RatAdd(RatMul(transitionScore, Rat(4, 10)), RatMul(fieldScore, Rat(6, 10)))

calculateComplianceScoreIgnoringFields(metrics) ==
    IF metrics.totalStageTransitions = 0 THEN Rat(100, 1)
    ELSE RatAdd(Rat(60 * metrics.validTransitions, metrics.totalStageTransitions), Rat(40, 1))

calculateComplianceScore(metrics) ==
    IF metrics.totalStageTransitions = 0 THEN Rat(100, 1)
    ELSE LET transitionScore ==
               RatMul(Rat(metrics.validTransitions, metrics.totalStageTransitions), Rat(100, 1))
             fieldScore == metrics.requiredFieldsCompliance
         IN RatAdd(RatMul(transitionScore, Rat(6, 10)), RatMul(fieldScore, Rat(4, 10)))

calculateTrendCountingResolved(log, objects, clock) ==
    IF Len(log) < 5 THEN "stable"
    ELSE LET oneWeekAgo == clock - 7
             recentViolations ==
               Cardinality({i \in 1..Len(log) : objects[log[i]].timestamp >= oneWeekAgo})
             olderViolations ==
               Cardinality({i \in 1..Len(log) : objects[log[i]].timestamp < oneWeekAgo})
         IN IF recentViolations < olderViolations THEN "improving"
            ELSE IF recentViolations > olderViolations THEN "declining"
            ELSE "stable"

\* calculateTrend(userId), reading the violation log as it stands
calculateTrend(log, objects, clock) ==
    IF Len(log) < 5 THEN "stable"
    ELSE LET oneWeekAgo == clock - 7
             recentViolations ==
               Cardinality({i \in 1..Len(log) :
                              objects[log[i]].timestamp >= oneWeekAgo /\ ~objects[log[i]].resolved})
             olderViolations ==
               Cardinality({i \in 1..Len(log) :
                              objects[log[i]].timestamp < oneWeekAgo /\ ~objects[log[i]].resolved})
         IN IF recentViolations < olderViolations THEN "improving"
            ELSE IF recentViolations > olderViolations THEN "declining"
            ELSE "stable"

determineSeverityHighUpToFive(missingFieldCount) ==
    IF missingFieldCount = 0 THEN "low"
    ELSE IF missingFieldCount <= 2 THEN "medium"
    ELSE IF missingFieldCount <= 5 THEN "high"
    ELSE "critical"

determineSeverity(missingFieldCount) ==
    IF missingFieldCount = 0 THEN "low"
    ELSE IF missingFieldCount <= 2 THEN "medium"
    ELSE IF missingFieldCount <= 4 THEN "high"
    ELSE "critical"

\* an optional string[] argument
NoFields == [given |-> FALSE, fields |-> <<>>]
Fields(names) == [given |-> TRUE, fields |-> names]

\* ruleId && ruleName
Truthy(arg) == arg # NoArg /\ arg # ""

\* the counters after lines 224-235 of recordStageTransition
countTransitionDroppingInvalid(metrics, objectType, isValid) ==
    LET m1 == [metrics EXCEPT !.totalStageTransitions = @ + 1]
    IN IF isValid
       THEN IF objectType = "contact"
            THEN [m1 EXCEPT !.validTransitions = @ + 1, !.contactsStagedCorrectly = @ + 1]
            ELSE [m1 EXCEPT !.validTransitions = @ + 1, !.dealsStagedCorrectly = @ + 1]
       ELSE m1

countTransitionContactsUncounted(metrics, objectType, isValid) ==
    LET m1 == [metrics EXCEPT !.totalStageTransitions = @ + 1]
    IN IF isValid
       THEN IF objectType = "contact"
            THEN [m1 EXCEPT !.validTransitions = @ + 1]
            ELSE [m1 EXCEPT !.validTransitions = @ + 1, !.dealsStagedCorrectly = @ + 1]
       ELSE [m1 EXCEPT !.invalidAttempts = @ + 1]

countTransition(metrics, objectType, isValid) ==
    LET m1 == [metrics EXCEPT !.totalStageTransitions = @ + 1]
    IN IF isValid
       THEN IF objectType = "contact"
            THEN [m1 EXCEPT !.validTransitions = @ + 1, !.contactsStagedCorrectly = @ + 1]
            ELSE [m1 EXCEPT !.validTransitions = @ + 1, !.dealsStagedCorrectly = @ + 1]
       ELSE [m1 EXCEPT !.invalidAttempts = @ + 1]

\* the violation log after lines 258-260 of recordStageTransition
pushUserViolationDropped(store, userId, ref) == store

pushUserViolation(store, userId, ref) ==
    Put(store, userId, Append(GetList(store, userId), ref))

\* whether recordStageTransition builds a ComplianceViolation (and draws an id)
recordsViolation(isValid, ruleId, ruleName) ==
    ~isValid /\ Truthy(ruleId) /\ Truthy(ruleName)

\* recordStageTransition as a relation on the store
recordStageTransition(userId, userName, objectType, objectId, fromStage, toStage, isValid, missingFields, ruleId, ruleName) ==
    LET created == getOrCreateScorecard(scorecardStore, userId, userName, now)
        scorecard == created[userId]
        metrics == countTransition(scorecard.metrics, objectType, isValid)
        violates == recordsViolation(isValid, ruleId, ruleName)
        id == generated + 1
        violation ==
          [id |-> id,
           timestamp |-> now,
           objectType |-> objectType,
           objectId |-> objectId,
           violationType |-> IF missingFields.given /\ Len(missingFields.fields) > 0
                             THEN "missing_required_field"
                             ELSE "invalid_stage_progression",
           fromStage |-> fromStage,
           toStage |-> toStage,
           missingFields |-> missingFields,
           ruleId |-> ruleId,
           ruleName |-> ruleName,
           severity |-> determineSeverity(IF missingFields.given
                                          THEN Len(missingFields.fields) ELSE 0),
           resolved |-> FALSE,
           resolvedAt |-> NoDate]
        objects == IF violates THEN Put(violationObjects, id, violation) ELSE violationObjects
        log == IF violates THEN pushUserViolation(violationStore, userId, id) ELSE violationStore
    IN /\ violationObjects' = objects
       /\ violationStore' = log
       /\ scorecardStore' =
            Put(created, userId,
                [scorecard EXCEPT
                   !.metrics = metrics,
                   !.violations = IF violates THEN Append(@, id) ELSE @,
                   !.complianceScore = calculateComplianceScore(metrics),
                   !.trend = calculateTrend(GetList(log, userId), objects, now),
                   !.lastUpdated = now])
       /\ calls' = Put(calls, userId, (IF Has(calls, userId) THEN calls[userId] ELSE 0) + 1)

\* Array.prototype.sort by timestamp descending (a stable sort)
RECURSIVE sortByTimestampDesc(_, _)
sortByTimestampDesc(refs, objects) ==
    IF refs = <<>> THEN <<>>
    ELSE LET sorted == sortByTimestampDesc(SubSeq(refs, 1, Len(refs) - 1), objects)
             x == refs[Len(refs)]
             k == Cardinality({i \in 1..Len(sorted) :
                                 objects[sorted[i]].timestamp >= objects[x].timestamp})
         IN SubSeq(sorted, 1, k) \o <<x>> \o SubSeq(sorted, k + 1, Len(sorted))

\* the options of getUserViolations: resolved is "undefined", "true" or
\* "false"; objectType is NoArg or an object type; limit is NoLimit or a number
NoLimit == 0 - 1
NoOptions == [resolved |-> "undefined", objectType |-> NoArg, limit |-> NoLimit]

\* whether getUserViolations sorts the stored array itself (no filter made a copy)
SortsInPlace(options) == options.resolved = "undefined" /\ options.objectType = NoArg

\* the array getUserViolations(userId, options) returns
getUserViolations(userId, options) ==
    LET stored == GetList(violationStore, userId)
        byResolved ==
          IF options.resolved # "undefined"
          THEN SelectSeq(stored, LAMBDA r : violationObjects[r].resolved = (options.resolved = "true"))
          ELSE stored
        byType ==
          IF Truthy(options.objectType)
          THEN SelectSeq(byResolved, LAMBDA r : violationObjects[r].objectType = options.objectType)
          ELSE byResolved
        sorted == sortByTimestampDesc(byType, violationObjects)
        limited ==
          IF options.limit # NoLimit /\ options.limit # 0
          THEN SubSeq(sorted, 1, IF options.limit < Len(sorted) THEN options.limit ELSE Len(sorted))
          ELSE sorted
    IN [i \in 1..Len(limited) |-> violationObjects[limited[i]]]

\* scorecards.sort((a, b) => b.complianceScore - a.complianceScore) on the
\* keys of the store, in the order given (a stable sort)
RECURSIVE sortByScoreDesc(_)
sortByScoreDesc(userIds) ==
    IF userIds = <<>> THEN <<>>
    ELSE LET sorted == sortByScoreDesc(SubSeq(userIds, 1, Len(userIds) - 1))
             x == userIds[Len(userIds)]
             k == Cardinality({i \in 1..Len(sorted) :
                                 RatLeq(scorecardStore[x].complianceScore,
                                        scorecardStore[sorted[i]].complianceScore)})
         IN SubSeq(sorted, 1, k) \o <<x>> \o SubSeq(sorted, k + 1, Len(sorted))

getAllScorecardsUnsorted(insertionOrder) ==
    [i \in 1..Len(insertionOrder) |-> scorecardStore[insertionOrder[i]]]

\* the array getAllScorecards() returns when the Map iterates its keys in
\* insertionOrder
getAllScorecards(insertionOrder) ==
    LET sorted == sortByScoreDesc(insertionOrder)
    IN [i \in 1..Len(sorted) |-> scorecardStore[sorted[i]]]

\* the orders in which scorecardStore.values() can iterate: the Map keeps
\* its keys in the order of their first set
InsertionOrders ==
    {order \in [1..Cardinality(DOMAIN scorecardStore) -> DOMAIN scorecardStore] :
       \A i, j \in DOMAIN order : order[i] = order[j] => i = j}

\* Array.prototype.find on an array of violation references: <<ref>> or <<>>
findViolation(refs, objects, violationId) ==
    LET hits == SelectSeq(refs, LAMBDA r : objects[r].id = violationId)
    IN IF hits = <<>> THEN <<>> ELSE <<Head(hits)>>

(***************************************************************************)
(* Operations of the scorecard store.  Operations whose return value the   *)
(* properties read have it as an operator on the state before the call.    *)
(***************************************************************************)
Total(userId) ==
    IF Has(scorecardStore, userId) THEN scorecardStore[userId].metrics.totalStageTransitions ELSE 0

GetOrCreateScorecard(userId, userName) ==
    /\ scorecardStore' = getOrCreateScorecard(scorecardStore, userId, userName, now)
    /\ lastCall' = NoCall
    /\ UNCHANGED <<engineVars, hostVars, violationStore, violationObjects, generated, calls, alertVars, now>>

RecordStageTransition(userId, userName, objectType, objectId, fromStage, toStage, isValid, missingFields, ruleId, ruleName) ==
    /\ Total(userId) < MaxTransitions
    /\ recordsViolation(isValid, ruleId, ruleName)
         => Cardinality(DOMAIN violationObjects) < MaxViolations
    /\ recordStageTransition(userId, userName, objectType, objectId, fromStage, toStage,
                             isValid, missingFields, ruleId, ruleName)
    /\ generated' = IF recordsViolation(isValid, ruleId, ruleName)
                    THEN generated + 1 ELSE generated
    /\ lastCall' = NoCall
    /\ UNCHANGED <<engineVars, hostVars, alertVars, now>>

UpdateFieldsComplianceRecomputing(userId, userName, totalFields, compliantFields) ==
    LET created == getOrCreateScorecard(scorecardStore, userId, userName, now)
        scorecard == created[userId]
        sampled == [scorecard.metrics EXCEPT
                      !.requiredFieldsCompliance =
                         IF totalFields > 0 THEN Rat(compliantFields * 100, totalFields) ELSE @]
    IN /\ scorecardStore' =
            Put(created, userId,
                [scorecard EXCEPT !.metrics = sampled,
                                  !.complianceScore = calculateComplianceScore(sampled),
                                  !.lastUpdated = now])
       /\ lastCall' = NoCall
       /\ UNCHANGED <<engineVars, hostVars, violationStore, violationObjects, generated, calls,
                      alertVars, now>>

UpdateFieldsCompliance(userId, userName, totalFields, compliantFields) ==
    LET created == getOrCreateScorecard(scorecardStore, userId, userName, now)
        scorecard == created[userId]
    IN /\ scorecardStore' =
            Put(created, userId,
                [scorecard EXCEPT
                   !.metrics.requiredFieldsCompliance =
                      IF totalFields > 0 THEN Rat(compliantFields * 100, totalFields) ELSE @,
                   !.lastUpdated = now])
       /\ lastCall' = NoCall
       /\ UNCHANGED <<engineVars, hostVars, violationStore, violationObjects, generated, calls,
                      alertVars, now>>

GetUserViolations(userId, options) ==
    /\ violationStore' =
         IF Has(violationStore, userId) /\ SortsInPlace(options)
         THEN [violationStore EXCEPT ![userId] = sortByTimestampDesc(@, violationObjects)]
         ELSE violationStore
    /\ lastCall' = NoCall
    /\ UNCHANGED <<engineVars, hostVars, scorecardStore, violationObjects, generated, calls,
                   alertVars, now>>

\* violation.resolved = true; violation.resolvedAt = new Date()
markResolvedWithoutDate(objects, ref, clock) ==
    [objects EXCEPT ![ref].resolved = TRUE]

markResolved(objects, ref, clock) ==
    [objects EXCEPT ![ref].resolved = TRUE, ![ref].resolvedAt = clock]

\* the violation resolveViolation finds in the user's log: <<ref>> or <<>>
resolveViolationFinds(userId, violationId) ==
    IF Has(violationStore, userId)
    THEN findViolation(violationStore[userId], violationObjects, violationId)
    ELSE <<>>

\* what resolveViolation(userId, violationId) returns
resolveViolationReturns(userId, violationId) ==
    resolveViolationFinds(userId, violationId) # <<>>

ResolveViolationRecomputingTrend(userId, violationId) ==
    LET found == resolveViolationFinds(userId, violationId)
        resolvedInLog == markResolved(violationObjects, found[1], now)
        mirror == IF Has(scorecardStore, userId)
                  THEN findViolation(scorecardStore[userId].violations, resolvedInLog, violationId)
                  ELSE <<>>
        objects == IF found = <<>> THEN violationObjects
                   ELSE IF mirror = <<>> THEN resolvedInLog
                   ELSE markResolved(resolvedInLog, mirror[1], now)
    IN /\ violationObjects' = objects
       /\ scorecardStore' =
            IF found # <<>> /\ Has(scorecardStore, userId)
            THEN [scorecardStore EXCEPT ![userId].trend =
                    calculateTrend(GetList(violationStore, userId), objects, now)]
            ELSE scorecardStore
       /\ lastCall' = [op |-> "resolveViolation", userId |-> userId,
                       violationId |-> violationId,
                       returned |-> resolveViolationReturns(userId, violationId)]
       /\ UNCHANGED <<engineVars, hostVars, violationStore, generated, calls,
                      alertVars, now>>

ResolveViolation(userId, violationId) ==
    LET found == resolveViolationFinds(userId, violationId)
        resolvedInLog == markResolved(violationObjects, found[1], now)
        mirror == IF Has(scorecardStore, userId)
                  THEN findViolation(scorecardStore[userId].violations, resolvedInLog, violationId)
                  ELSE <<>>
    IN /\ violationObjects' =
            IF found = <<>> THEN violationObjects
            ELSE IF mirror = <<>> THEN resolvedInLog
            ELSE markResolved(resolvedInLog, mirror[1], now)
       /\ lastCall' = [op |-> "resolveViolation", userId |-> userId,
                       violationId |-> violationId,
                       returned |-> resolveViolationReturns(userId, violationId)]
       /\ UNCHANGED <<engineVars, hostVars, scorecardStore, violationStore, generated, calls,
                      alertVars, now>>

ResetScorecardClearingLog(userId) ==
    /\ scorecardStore' =
         IF Has(scorecardStore, userId)
         THEN [scorecardStore EXCEPT
                 ![userId].period = getCurrentPeriod(now),
                 ![userId].metrics = createEmptyMetrics,
                 ![userId].complianceScore = Rat(100, 1),
                 ![userId].violations = <<>>,
                 ![userId].lastUpdated = now]
         ELSE scorecardStore
    /\ violationStore' = IF Has(scorecardStore, userId) /\ Has(violationStore, userId)
                         THEN [violationStore EXCEPT ![userId] = <<>>]
                         ELSE violationStore
    /\ calls' = IF Has(scorecardStore, userId) THEN Put(calls, userId, 0) ELSE calls
    /\ lastCall' = NoCall
    /\ UNCHANGED <<engineVars, hostVars, violationObjects, generated, alertVars, now>>

ResetScorecardForNewPeriod(userId) ==
    /\ scorecardStore' =
         IF Has(scorecardStore, userId)
         THEN [scorecardStore EXCEPT
                 ![userId].period = getCurrentPeriod(now),
                 ![userId].metrics = createEmptyMetrics,
                 ![userId].complianceScore = Rat(100, 1),
                 ![userId].violations = <<>>,
                 ![userId].lastUpdated = now]
         ELSE scorecardStore
    /\ calls' = IF Has(scorecardStore, userId) THEN Put(calls, userId, 0) ELSE calls
    /\ lastCall' = NoCall
    /\ UNCHANGED <<engineVars, hostVars, violationStore, violationObjects, generated, alertVars, now>>

Tick ==
    /\ now + ClockStep <= MaxTime
    /\ now' = now + ClockStep
    /\ lastCall' = NoCall
    /\ UNCHANGED <<engineVars, hostVars, storeVars, alertVars>>

(***************************************************************************)
(* Store harness: two users call the transition, violation and reset       *)
(* operations in any order within one day.                                 *)
(***************************************************************************)
ObjectTypes == {"contact", "deal"}
RuleArgs == {<<NoArg, NoArg>>, <<"rule-1", "Test Rule">>}
ViolationIds == 0..MaxViolations

Init ==
    /\ request = NoRequest
    /\ result = NoResult
    /\ InitStores

Next ==
    \/ \E u \in Users, name \in UserNames : GetOrCreateScorecard(u, name)
    \/ \E u \in Users, name \in UserNames, valid \in BOOLEAN, rule \in RuleArgs :
          RecordStageTransition(u, name, "deal", "obj-1", "appointmentscheduled", "qualifiedtobuy",
                                valid, Fields(<<"amount", "owner">>), rule[1], rule[2])
    \/ \E u \in Users : GetUserViolations(u, NoOptions)
    \/ \E u \in Users, id \in ViolationIds : ResolveViolation(u, id)
    \/ \E u \in Users : ResetScorecardForNewPeriod(u)

Spec == Init /\ [][Next]_vars

(***************************************************************************)
(* Fields harness: one user, the operations that write the metrics, every  *)
(* shape of the optional arguments, updateFieldsCompliance with any counts.*)
(***************************************************************************)
FieldsUser == "u1"
MissingFieldsArgs == {NoFields, Fields(<<"amount", "owner">>)}
OptionalRuleArgs == {<<NoArg, NoArg>>, <<"rule-1", NoArg>>, <<"", "Test Rule">>,
                     <<"rule-1", "Test Rule">>}

NextFields ==
    \/ \E name \in UserNames : GetOrCreateScorecard(FieldsUser, name)
    \/ \E name \in UserNames, ot \in ObjectTypes, valid \in BOOLEAN,
          mf \in MissingFieldsArgs, rule \in OptionalRuleArgs :
          RecordStageTransition(FieldsUser, name, ot, "obj-1", "lead", "marketingqualifiedlead",
                                valid, mf, rule[1], rule[2])
    \/ \E name \in UserNames, total \in 0..MaxFields, compliant \in (0 - 1)..(MaxFields + 1) :
          UpdateFieldsCompliance(FieldsUser, name, total, compliant)
    \/ ResetScorecardForNewPeriod(FieldsUser)

SpecFields == Init /\ [][NextFields]_vars

(***************************************************************************)
(* Sampling harness: one user records deal transitions, samples field      *)
(* completeness and resets the period.                                     *)
(***************************************************************************)
TotalFieldsArgs == 0..MaxFields
CompliantFieldsArgs == (0 - 1)..(MaxFields + 1)

NextSampling ==
    \/ \E name \in UserNames, valid \in BOOLEAN, rule \in RuleArgs :
          RecordStageTransition(FieldsUser, name, "deal", "obj-1", "appointmentscheduled",
                                "qualifiedtobuy", valid, Fields(<<"amount">>), rule[1], rule[2])
    \/ \E name \in UserNames, total \in TotalFieldsArgs, compliant \in CompliantFieldsArgs :
          UpdateFieldsCompliance(FieldsUser, name, total, compliant)
    \/ ResetScorecardForNewPeriod(FieldsUser)

SpecSampling == Init /\ [][NextSampling]_vars

(***************************************************************************)
(* Violation harness: one user records transitions with every shape of the *)
(* optional arguments: missingFields absent, empty or of up to             *)
(* MaxMissingFields names, ruleId and ruleName absent, empty or given.     *)
(* The period is reset in between, so the embedded list and the log differ.*)
(***************************************************************************)
MaxMissingFields == 5
FieldNames == <<"amount", "closedate", "dealname">>
MissingFieldLists ==
    {NoFields} \cup {Fields([i \in 1..n |-> FieldNames[((i - 1) % Len(FieldNames)) + 1]]) :
                       n \in 0..MaxMissingFields}

\* <<isValid, missingFields, <<ruleId, ruleName>>>>: every shape of the rule
\* arguments with and without missing fields, and every number of missing
\* fields on the calls that carry a rule and are invalid
RecordArgs ==
    {<<valid, mf, rule>> : valid \in BOOLEAN, mf \in MissingFieldsArgs, rule \in OptionalRuleArgs}
      \cup {<<FALSE, mf, <<"rule-1", "Test Rule">>>> : mf \in MissingFieldLists}

NextViolations ==
    \/ \E name \in UserNames, args \in RecordArgs :
          RecordStageTransition(FieldsUser, name, "deal", "obj-1", "appointmentscheduled",
                                "qualifiedtobuy", args[1], args[2], args[3][1], args[3][2])
    \/ ResetScorecardForNewPeriod(FieldsUser)

SpecViolations == Init /\ [][NextViolations]_vars

(***************************************************************************)
(* Trend harness: one user records a series of transitions long enough for *)
(* the trend to leave "stable" (five violations in the log), resolves      *)
(* violations and lets more than a week pass.  The series is bounded by    *)
(* MaxLog calls and MaxLog violations.                                     *)
(***************************************************************************)
MaxLog == 5
LogIds == 1..MaxLog

RecordInSeries(userId, userName, isValid, ruleId, ruleName) ==
    /\ Total(userId) < MaxLog
    /\ recordsViolation(isValid, ruleId, ruleName) => Cardinality(DOMAIN violationObjects) < MaxLog
    /\ recordStageTransition(userId, userName, "deal", "obj-1", "appointmentscheduled",
                             "qualifiedtobuy", isValid, Fields(<<"amount">>), ruleId, ruleName)
    /\ generated' = IF recordsViolation(isValid, ruleId, ruleName)
                    THEN generated + 1 ELSE generated
    /\ lastCall' = [op |-> "recordStageTransition", userId |-> userId]
    /\ UNCHANGED <<engineVars, hostVars, alertVars, now>>

NextTrend ==
    \/ \E name \in UserNames, valid \in BOOLEAN :
          RecordInSeries(FieldsUser, name, valid, "rule-1", "Test Rule")
    \/ \E id \in LogIds : ResolveViolation(FieldsUser, id)
    \/ Tick

SpecTrend == Init /\ [][NextTrend]_vars

(***************************************************************************)
(* Period harness: two users record deal transitions that carry a rule,    *)
(* sample a field compliance of 0%, resolve violations and reset.          *)
(***************************************************************************)
NextPeriod ==
    \/ \E u \in Users, name \in UserNames, valid \in BOOLEAN :
          RecordStageTransition(u, name, "deal", "obj-1", "appointmentscheduled", "qualifiedtobuy",
                                valid, Fields(<<"amount">>), "rule-1", "Test Rule")
    \/ \E u \in Users, name \in UserNames : UpdateFieldsCompliance(u, name, 1, 0)
    \/ \E u \in Users, id \in ViolationIds : ResolveViolation(u, id)
    \/ \E u \in Users : ResetScorecardForNewPeriod(u)

SpecPeriod == Init /\ [][NextPeriod]_vars

(***************************************************************************)
(* Query harness: one user records transitions on different days, resolves *)
(* violations and reads the log with every combination of options.         *)
(***************************************************************************)
ViolationQueries ==
    [resolved : {"undefined", "true", "false"}, objectType : {NoArg, "deal"},
     limit : {NoLimit, 0, 1}]

NextQueries ==
    \/ \E name \in UserNames, valid \in BOOLEAN :
          RecordStageTransition(FieldsUser, name, "deal", "obj-1", "appointmentscheduled",
                                "qualifiedtobuy", valid, Fields(<<"amount">>), "rule-1", "Test Rule")
    \/ \E id \in ViolationIds : ResolveViolation(FieldsUser, id)
    \/ \E options \in ViolationQueries : GetUserViolations(FieldsUser, options)
    \/ Tick

SpecQueries == Init /\ [][NextQueries]_vars

(***************************************************************************)
(* Alert store.                                                            *)
(***************************************************************************)
severityMap(severity) ==
    CASE severity = "low" -> "info"
      [] severity = "medium" -> "warning"
      [] severity = "high" -> "error"
      [] severity = "critical" -> "critical"
      [] OTHER -> "warning"

mapViolationTypeToAlertType(violationType) ==
    IF violationType = "missing_required_field" THEN "required_field_missing"
    ELSE "stage_gate_violation"

buildViolationMessage(violation) ==
    CASE violation.violationType = "missing_required_field" ->
           "Missing required fields: "
             \o (IF violation.missingFields.given /\ join(violation.missingFields.fields) # ""
                 THEN join(violation.missingFields.fields) ELSE "unknown")
      [] violation.violationType = "invalid_stage_progression" ->
           "Invalid stage progression from " \o violation.fromStage \o " to " \o violation.toStage
      [] violation.violationType = "skipped_stage" ->
           "Stages were skipped in the progression from " \o violation.fromStage
             \o " to " \o violation.toStage
      [] violation.violationType = "dependency_not_met" ->
           "Required dependencies not met for progression to " \o violation.toStage
      [] violation.violationType = "condition_failed" ->
           "Stage conditions not met for " \o violation.toStage
      [] violation.violationType = "backward_progression" ->
           "Backward progression detected from " \o violation.fromStage
             \o " to " \o violation.toStage
      [] OTHER -> "Stage gate violation detected"

\* createAlert as a relation on the alert store; id is the generated id
createAlert(portalId, alert, id) ==
    LET newAlert ==
          [id |-> id,
           type |-> alert.type,
           severity |-> alert.severity,
           title |-> alert.title,
           message |-> alert.message,
           objectType |-> alert.objectType,
           objectId |-> alert.objectId,
           userId |-> alert.userId,
           metadata |-> alert.metadata,
           timestamp |-> now,
           acknowledged |-> FALSE,
           acknowledgedBy |-> NoArg,
           acknowledgedAt |-> NoDate]
    IN /\ alertStore' = Put(alertStore, id, newAlert)
       /\ alertsByPortal' = Put(alertsByPortal, portalId, Append(GetList(alertsByPortal, portalId), id))
       /\ alertsByUser' = Put(alertsByUser, alert.userId, Append(GetList(alertsByUser, alert.userId), id))
       /\ alertHistory' = Put(alertHistory, id, [portalId |-> portalId, userId |-> alert.userId,
                                                  acknowledged |-> FALSE])

createAlertFromViolation(portalId, violation, userId, id) ==
    createAlert(portalId,
                [type |-> mapViolationTypeToAlertType(violation.violationType),
                 severity |-> severityMap(violation.severity),
                 title |-> "Stage Gate Violation: " \o violation.ruleName,
                 message |-> buildViolationMessage(violation),
                 objectType |-> violation.objectType,
                 objectId |-> violation.objectId,
                 userId |-> userId,
                 metadata |-> [ruleId |-> violation.ruleId,
                               fromStage |-> violation.fromStage,
                               toStage |-> violation.toStage,
                               missingFields |-> violation.missingFields]],
                id)

\* the options of getPortalAlerts and getUserAlerts: acknowledged is
\* "undefined", "true" or "false"; severity and type are NoArg or a tag;
\* limit is NoLimit or a number (getUserAlerts reads acknowledged and limit)
NoAlertOptions ==
    [acknowledged |-> "undefined", severity |-> NoArg, type |-> NoArg, limit |-> NoLimit]

\* alertIds.map((id) => alertStore.get(id)).filter(Boolean)
storedAlerts(alertIds) == SelectSeq(alertIds, LAMBDA id : Has(alertStore, id))

\* alerts.slice(0, options.limit) under if (options?.limit)
sliceToLimit(alerts, limit) ==
    IF limit # NoLimit /\ limit # 0
    THEN SubSeq(alerts, 1, IF limit < Len(alerts) THEN limit ELSE Len(alerts))
    ELSE alerts

\* the array getPortalAlerts(portalId, options) returns
getPortalAlerts(portalId, options) ==
    LET all == storedAlerts(GetList(alertsByPortal, portalId))
        byAcknowledged ==
          IF options.acknowledged # "undefined"
          THEN SelectSeq(all, LAMBDA id :
                 alertStore[id].acknowledged = (options.acknowledged = "true"))
          ELSE all
        bySeverity ==
          IF Truthy(options.severity)
          THEN SelectSeq(byAcknowledged, LAMBDA id : alertStore[id].severity = options.severity)
          ELSE byAcknowledged
        byType ==
          IF Truthy(options.type)
          THEN SelectSeq(bySeverity, LAMBDA id : alertStore[id].type = options.type)
          ELSE bySeverity
        limited == sliceToLimit(sortByTimestampDesc(byType, alertStore), options.limit)
    IN [i \in 1..Len(limited) |-> alertStore[limited[i]]]

getUserAlertsKeepingAll(userId, options) ==
    LET all == storedAlerts(GetList(alertsByUser, userId))
        limited == sliceToLimit(sortByTimestampDesc(all, alertStore), options.limit)
    IN [i \in 1..Len(limited) |-> alertStore[limited[i]]]

\* the array getUserAlerts(userId, options) returns
getUserAlerts(userId, options) ==
    LET all == storedAlerts(GetList(alertsByUser, userId))
        byAcknowledged ==
          IF options.acknowledged # "undefined"
          THEN SelectSeq(all, LAMBDA id :
                 alertStore[id].acknowledged = (options.acknowledged = "true"))
          ELSE all
        limited == sliceToLimit(sortByTimestampDesc(byAcknowledged, alertStore), options.limit)
    IN [i \in 1..Len(limited) |-> alertStore[limited[i]]]

getUnacknowledgedAlertCount(userId) ==
    Len(getUserAlerts(userId, [NoAlertOptions EXCEPT !.acknowledged = "false"]))

\* alert.acknowledged = true; alert.acknowledgedBy = ...; alert.acknowledgedAt = new Date()
markAcknowledgedByOnly(store, alertId, acknowledgedBy, clock) ==
    [store EXCEPT ![alertId].acknowledgedBy = acknowledgedBy,
                  ![alertId].acknowledgedAt = clock]

markAcknowledged(store, alertId, acknowledgedBy, clock) ==
    [store EXCEPT ![alertId].acknowledged = TRUE,
                  ![alertId].acknowledgedBy = acknowledgedBy,
                  ![alertId].acknowledgedAt = clock]

expiredAlertsWhateverAcknowledged(olderThanDays) ==
    {id \in DOMAIN alertStore : alertStore[id].timestamp < now - olderThanDays}

\* the alerts cleanupOldAlerts(olderThanDays) deletes
expiredAlerts(olderThanDays) ==
    {id \in DOMAIN alertStore :
       alertStore[id].timestamp < now - olderThanDays /\ alertStore[id].acknowledged}

(***************************************************************************)
(* Operations of the alert store.                                          *)
(***************************************************************************)
NoMetadata == [ruleId |-> NoArg, fromStage |-> NoArg, toStage |-> NoArg, missingFields |-> NoFields]

CreateAlert(portalId, alert) ==
    /\ Cardinality(DOMAIN alertHistory) < MaxAlerts
    /\ createAlert(portalId, alert, generated + 1)
    /\ generated' = generated + 1
    /\ lastCall' = NoCall
    /\ UNCHANGED <<engineVars, hostVars, scorecardStore, violationStore, violationObjects, calls, now>>

CreateAlertFromViolation(portalId, violation, userId) ==
    /\ Cardinality(DOMAIN alertHistory) < MaxAlerts
    /\ createAlertFromViolation(portalId, violation, userId, generated + 1)
    /\ generated' = generated + 1
    /\ lastCall' = NoCall
    /\ UNCHANGED <<engineVars, hostVars, scorecardStore, violationStore, violationObjects, calls, now>>

AcknowledgeAlert(alertId, acknowledgedBy) ==
    /\ alertStore' = IF Has(alertStore, alertId)
                     THEN markAcknowledged(alertStore, alertId, acknowledgedBy, now)
                     ELSE alertStore
    /\ alertHistory' = IF Has(alertStore, alertId)
                       THEN [alertHistory EXCEPT ![alertId].acknowledged = TRUE]
                       ELSE alertHistory
    /\ lastCall' = [op |-> "acknowledgeAlert", alertId |-> alertId,
                    acknowledgedBy |-> acknowledgedBy, returned |-> Has(alertStore, alertId)]
    /\ UNCHANGED <<engineVars, hostVars, storeVars, alertsByPortal, alertsByUser, now>>

CleanupOldAlerts(olderThanDays) ==
    /\ alertStore' = [id \in DOMAIN alertStore \ expiredAlerts(olderThanDays) |-> alertStore[id]]
    /\ lastCall' = [op |-> "cleanupOldAlerts", olderThanDays |-> olderThanDays,
                    returned |-> Cardinality(expiredAlerts(olderThanDays))]
    /\ UNCHANGED <<engineVars, hostVars, storeVars, alertsByPortal, alertsByUser, alertHistory, now>>

(***************************************************************************)
(* Alert harness: alerts are created for two portals and two users,        *)
(* acknowledged and cleaned up while the clock advances.                   *)
(***************************************************************************)
Portals == {1, 2}
AlertIds == 0..MaxAlerts
DefaultOlderThanDays == 30
CleanupArgs == {DefaultOlderThanDays, 7}

AlertInputs ==
    {[type |-> "compliance_threshold", severity |-> "critical", title |-> "Test Alert",
      message |-> "This is a test alert", objectType |-> "contact", objectId |-> "contact-1",
      userId |-> u, metadata |-> NoMetadata] : u \in Users}

ViolationInputs ==
    {[violationType |-> "missing_required_field", objectType |-> "deal", objectId |-> "deal-1",
      fromStage |-> "appointmentscheduled", toStage |-> "qualifiedtobuy",
      missingFields |-> Fields(<<"amount">>), ruleId |-> "rule-1", ruleName |-> "Test Rule",
      severity |-> "medium", resolved |-> FALSE],
     [violationType |-> "backward_progression", objectType |-> "deal", objectId |-> "deal-1",
      fromStage |-> "qualifiedtobuy", toStage |-> "appointmentscheduled",
      missingFields |-> NoFields, ruleId |-> "rule-1", ruleName |-> "Test Rule",
      severity |-> "high", resolved |-> FALSE]}

NextAlerts ==
    \/ \E portalId \in Portals, alert \in AlertInputs : CreateAlert(portalId, alert)
    \/ \E violation \in ViolationInputs : CreateAlertFromViolation(1, violation, "u1")
    \/ \E id \in AlertIds : AcknowledgeAlert(id, "admin")
    \/ \E days \in CleanupArgs : CleanupOldAlerts(days)
    \/ Tick

SpecAlerts == Init /\ [][NextAlerts]_vars

(***************************************************************************)
(* POST /validate.  The handler has no await: it runs to completion.       *)
(***************************************************************************)
NoPortal == 0 - 1   \* portalId left out of the body
NoProperties == [missing |-> TRUE]

\* !x of JavaScript on the body's strings, on portalId and on properties
FalsyString(x) == x = NoArg \/ x = ""
FalsyPortal(x) == x = NoPortal \/ x = 0

\* result.errors.map((e) => e.field).filter(Boolean)
ErrorFields(errors) ==
    LET fields == [i \in 1..Len(errors) |-> errors[i].field]
    IN SelectSeq(fields, LAMBDA f : ~FalsyString(f))

\* whether the body passes the two input checks of the handler
PassesInputChecks(body) ==
    /\ ~FalsyString(body.objectType)
    /\ ~FalsyString(body.objectId)
    /\ ~FalsyString(body.currentStage)
    /\ ~FalsyString(body.targetStage)
    /\ body.properties # NoProperties
    /\ body.objectType \in {"contact", "deal"}

\* if (userId && portalId)
RecordsOutcome(body) == ~FalsyString(body.userId) /\ ~FalsyPortal(body.portalId)

PostValidate(body) ==
    IF ~PassesInputChecks(body)
    THEN /\ lastCall' = [op |-> "POST /validate", userId |-> body.userId, status |-> 400,
                         isValid |-> FALSE, trace |-> <<>>]
         /\ UNCHANGED <<engineVars, oauthVars, storeVars, alertVars, now>>
    ELSE \E res \in {validateStageTransition(
                       [objectType |-> body.objectType, objectId |-> body.objectId,
                        currentStage |-> body.currentStage, targetStage |-> body.targetStage,
                        properties |-> body.properties])} :
         \E missingFields \in {Fields(ErrorFields(res.errors))} :
         LET userName == IF FalsyString(body.userName) THEN body.userId ELSE body.userName
             ruleId == IF Len(res.errors) > 0 THEN "validation-error" ELSE NoArg
             ruleName == IF Len(res.errors) > 0 THEN "Validation Failed" ELSE NoArg
             records == RecordsOutcome(body)
             violates == recordsViolation(res.isValid, ruleId, ruleName)
             alerts == records /\ ~res.isValid /\ Len(res.errors) > 0
             afterRecord == IF records /\ violates THEN generated + 1 ELSE generated
         IN /\ records => Total(body.userId) < MaxTransitions
            /\ (records /\ violates) => Cardinality(DOMAIN violationObjects) < MaxViolations
            /\ alerts => Cardinality(DOMAIN alertStore) < MaxAlerts
            /\ IF records
               THEN recordStageTransition(body.userId, userName, body.objectType, body.objectId,
                                          body.currentStage, body.targetStage, res.isValid,
                                          missingFields, ruleId, ruleName)
               ELSE UNCHANGED <<scorecardStore, violationStore, violationObjects, calls>>
            /\ IF alerts
               THEN createAlertFromViolation(
                      body.portalId,
                      [violationType |-> "missing_required_field",
                       objectType |-> body.objectType,
                       objectId |-> body.objectId,
                       fromStage |-> body.currentStage,
                       toStage |-> body.targetStage,
                       missingFields |-> missingFields,
                       ruleId |-> "validation",
                       ruleName |-> "Stage Transition Validation",
                       severity |-> IF Len(res.errors) > 2 THEN "high" ELSE "medium",
                       resolved |-> FALSE],
                      body.userId, afterRecord + 1)
               ELSE UNCHANGED alertVars
            /\ generated' = IF alerts THEN afterRecord + 1 ELSE afterRecord
            /\ lastCall' = [op |-> "POST /validate", userId |-> body.userId, status |-> 200,
                            isValid |-> res.isValid,
                            trace |-> <<"validateStageTransition">>
                                      \o (IF records THEN <<"recordStageTransition">> ELSE <<>>)
                                      \o (IF alerts THEN <<"createAlertFromViolation">> ELSE <<>>)]
            /\ UNCHANGED <<engineVars, oauthVars, now>>

(***************************************************************************)
(* Route harness: bodies posted to /validate while the clock advances.     *)
(***************************************************************************)
NoProps ==
    [email |-> Undef, firstname |-> Undef, lastname |-> Undef, company |-> Undef,
     phone |-> Undef, hubspot_owner_id |-> Undef, hs_lead_status |-> Undef,
     dealname |-> Undef, amount |-> Undef, closedate |-> Undef]

\* a valid transition, one with three errors, one with one error, one without
\* a rule, an unknown object type and a body without properties
BodyTemplates ==
    { [objectType |-> "contact", currentStage |-> "lead", targetStage |-> "marketingqualifiedlead",
       properties |-> [NoProps EXCEPT !.email = Str(<<"a", "@", "b", ".", "c">>),
                                      !.firstname = Str(<<"J", "o">>),
                                      !.lastname = Str(<<"D", "o">>),
                                      !.company = Str(<<"A", "c">>)]],
      [objectType |-> "contact", currentStage |-> "lead", targetStage |-> "marketingqualifiedlead",
       properties |-> [NoProps EXCEPT !.email = Str(<<"a", "@", "b", ".", "c">>)]],
      [objectType |-> "deal", currentStage |-> "presentationscheduled",
       targetStage |-> "decisionmakerboughtin",
       properties |-> [NoProps EXCEPT !.amount = Str(<<"0">>)]],
      [objectType |-> "contact", currentStage |-> "subscriber", targetStage |-> "opportunity",
       properties |-> NoProps],
      [objectType |-> "company", currentStage |-> "lead", targetStage |-> "marketingqualifiedlead",
       properties |-> NoProps],
      [objectType |-> "contact", currentStage |-> "lead", targetStage |-> "marketingqualifiedlead",
       properties |-> NoProperties] }

\* u1 always sends a userName, the others never do
Bodies ==
    {body \in
       {[objectType |-> t.objectType, objectId |-> "12345", currentStage |-> t.currentStage,
         targetStage |-> t.targetStage, properties |-> t.properties,
         userId |-> u, portalId |-> portal, userName |-> name] :
           t \in BodyTemplates, u \in Users \cup {NoArg}, portal \in {NoPortal, 1},
           name \in UserNames \cup {NoArg}} :
       (body.userId = "u1") = (body.userName # NoArg)}

NextRoute ==
    \/ \E body \in Bodies : PostValidate(body) /\ UNCHANGED arrived
    \/ Tick

SpecRoute == Init /\ [][NextRoute]_vars

(***************************************************************************)
(* POST /validate/batch.  The handler checks that requests is an array of  *)
(* at most 100 elements and maps validateStageTransition over it; it       *)
(* touches neither store.                                                  *)
(***************************************************************************)
MaxBatch == 2
BatchLimit == 100

\* a body whose requests is not an array (Array.isArray(requests) is false)
NotAnArray == [isArray |-> FALSE, requests |-> <<>>]

\* requests.map((request) => ({objectId, result: validateStageTransition(request)}))
batchResults(requests) ==
    [i \in 1..Len(requests) |->
       [objectId |-> requests[i].objectId,
        result |-> validateStageTransition(
                     [objectType |-> requests[i].objectType, objectId |-> requests[i].objectId,
                      currentStage |-> requests[i].currentStage,
                      targetStage |-> requests[i].targetStage,
                      properties |-> requests[i].properties])]]

PostValidateBatch(body) ==
    /\ IF ~body.isArray
       THEN lastCall' = [op |-> "POST /validate/batch", status |-> 400, reached |-> <<>>,
                         total |-> 0, valid |-> 0]
       ELSE IF Len(body.requests) > BatchLimit
       THEN lastCall' = [op |-> "POST /validate/batch", status |-> 400, reached |-> <<>>,
                         total |-> 0, valid |-> 0]
       ELSE \E results \in {batchResults(body.requests)} :
              lastCall' = [op |-> "POST /validate/batch", status |-> 200,
                           reached |-> [i \in 1..Len(body.requests) |->
                                          body.requests[i].objectType],
                           total |-> Len(results),
                           valid |-> Cardinality({i \in 1..Len(results) : results[i].result.isValid})]
    /\ UNCHANGED <<engineVars, hostVars, storeVars, alertVars, now>>

(***************************************************************************)
(* Batch harness: both routes that call the engine.                        *)
(***************************************************************************)
BatchElements ==
    {[objectType |-> t.objectType, objectId |-> "12345", currentStage |-> t.currentStage,
      targetStage |-> t.targetStage, properties |-> t.properties] :
        t \in {b \in BodyTemplates : b.properties # NoProperties}}

RECURSIVE BatchesOf(_)
BatchesOf(n) ==
    IF n = 0 THEN {<<>>}
    ELSE BatchesOf(n - 1)
           \cup {Append(batch, e) : batch \in {b \in BatchesOf(n - 1) : Len(b) = n - 1},
                                    e \in BatchElements}

NextBatch ==
    \/ \E body \in Bodies : PostValidate(body) /\ UNCHANGED arrived
    \/ \E requests \in BatchesOf(MaxBatch) :
          PostValidateBatch([isArray |-> TRUE, requests |-> requests])
    \/ PostValidateBatch(NotAnArray)

SpecBatch == Init /\ [][NextBatch]_vars

(***************************************************************************)
(* Engine harness: a request is drawn, validateStageTransition is applied. *)
(***************************************************************************)
InitEngine ==
    /\ request \in Requests
    /\ result = NoResult
    /\ InitStores

ValidateStageTransition ==
    /\ result = NoResult
    /\ request # NoRequest
    /\ result' = validateStageTransition(request)
    /\ UNCHANGED <<request, hostVars, storeVars, alertVars, now, lastCall>>

NextEngine == ValidateStageTransition

SpecEngine == InitEngine /\ [][NextEngine]_vars

(***************************************************************************)
(* Properties of the validation engine (checked under SpecEngine).         *)
(***************************************************************************)
Validated == result # NoResult

CodesOf(entries) == [i \in 1..Len(entries) |-> entries[i].code]

HasWarning(code) == \E i \in 1..Len(result.warnings) : result.warnings[i].code = code

Ranked(objectType, stage) == Own(stageOrderOf(objectType), stage)

Rank(objectType, stage) ==
    LET table == stageOrderOf(objectType)
    IN table[CHOOSE i \in 1..Len(table) : table[i][1] = stage][2]

\* C1: the result is valid exactly when its errors list is empty, whatever
\* warnings (BACKWARD_PROGRESSION, SKIPPED_STAGES) it carries.
C1_ValidIffNoErrors ==
    Validated => (result.isValid <=> result.errors = <<>>)

C1_Witness_ValidWithWarning ==
    /\ Validated
    /\ result.isValid
    /\ HasWarning("SKIPPED_STAGES")

\* C2: when an active rule matches the request, the errors are one
\* INVALID_<FIELD> per failing required-field rule, in rule order, followed
\* by one CONDITION_FAILED_<FIELD> per failing condition, and the result is
\* valid exactly when nothing fails.
C2_ErrorsPerFailingRule ==
    Validated =>
      LET rule == getRuleForTransition(request.objectType, request.currentStage,
                                       request.targetStage)
      IN rule # <<>> =>
           LET failedFields ==
                 SelectSeq(rule[1].requiredFields,
                           LAMBDA r : ~FieldPasses(r, request.properties[r.field]))
               failedConditions ==
                 SelectSeq(rule[1].conditions,
                           LAMBDA c : ~ConditionPasses(c, request.properties[c.field]))
           IN /\ CodesOf(result.errors) =
                   [i \in 1..Len(failedFields) |-> "INVALID_" \o toUpperCase(failedFields[i].field)]
                   \o [i \in 1..Len(failedConditions) |->
                         "CONDITION_FAILED_" \o toUpperCase(failedConditions[i].field)]
              /\ result.isValid <=> (failedFields = <<>> /\ failedConditions = <<>>)

C2_Witness_FieldsThenCondition ==
    /\ Validated
    /\ request.currentStage = "marketingqualifiedlead"
    /\ request.targetStage = "salesqualifiedlead"
    /\ CodesOf(result.errors) =
         <<"INVALID_PHONE", "INVALID_HUBSPOT_OWNER_ID", "CONDITION_FAILED_HS_LEAD_STATUS">>

\* C9: a BACKWARD_PROGRESSION warning is emitted exactly when both stages are
\* in the rank table of the object type and the target ranks below the
\* current stage; a request with an unknown stage never gets it.
C9_BackwardIffRankedAndLower ==
    Validated =>
      (HasWarning("BACKWARD_PROGRESSION") <=>
         /\ Ranked(request.objectType, request.currentStage)
         /\ Ranked(request.objectType, request.targetStage)
         /\ Rank(request.objectType, request.targetStage)
              < Rank(request.objectType, request.currentStage))

\* C10: a SKIPPED_STAGES warning is emitted exactly when both stages are
\* ranked and the target ranks more than one above the current stage, and
\* it names the stages ranked strictly between the two, in the declaration
\* order of the rank table; unknown stage names get no warning.
C10_SkippedIffRankedAndGap ==
    Validated =>
      LET ot == request.objectType
          table == stageOrderOf(ot)
          gap == /\ Ranked(ot, request.currentStage)
                 /\ Ranked(ot, request.targetStage)
                 /\ Rank(ot, request.targetStage) > Rank(ot, request.currentStage) + 1
      IN /\ HasWarning("SKIPPED_STAGES") <=> gap
         /\ gap =>
              LET inside == SelectSeq(table,
                                      LAMBDA e : /\ e[2] > Rank(ot, request.currentStage)
                                                 /\ e[2] < Rank(ot, request.targetStage))
              IN \E i \in 1..Len(result.warnings) :
                    /\ result.warnings[i].code = "SKIPPED_STAGES"
                    /\ result.warnings[i].message =
                         "Skipping stages: " \o join([k \in 1..Len(inside) |-> inside[k][1]])

C10_Witness_SubscriberToOpportunity ==
    /\ Validated
    /\ request.currentStage = "subscriber"
    /\ request.targetStage = "opportunity"
    /\ \E i \in 1..Len(result.warnings) :
          result.warnings[i].message
            = "Skipping stages: lead, marketingqualifiedlead, salesqualifiedlead"

(***************************************************************************)
(* Properties of the scorecard and violation store.                        *)
(***************************************************************************)
Calls(userId) == IF Has(calls, userId) THEN calls[userId] ELSE 0

Metrics(userId) == scorecardStore[userId].metrics

\* the violations of the scorecard's embedded list and of the user's log
Embedded(userId) ==
    IF Has(scorecardStore, userId)
    THEN [i \in 1..Len(scorecardStore[userId].violations) |->
            violationObjects[scorecardStore[userId].violations[i]]]
    ELSE <<>>

Logged(userId) ==
    [i \in 1..Len(GetList(violationStore, userId)) |->
       violationObjects[GetList(violationStore, userId)[i]]]

\* C3: after N recordStageTransition calls for a user with no reset in
\* between, totalStageTransitions = N and validTransitions + invalidAttempts = N.
C3_CountersMatchCalls ==
    \A u \in Users :
        Calls(u) > 0 =>
          /\ Has(scorecardStore, u)
          /\ Metrics(u).totalStageTransitions = Calls(u)
          /\ Metrics(u).validTransitions + Metrics(u).invalidAttempts = Calls(u)

C3_Witness_MixedCalls ==
    \E u \in Users :
        /\ Calls(u) = 2
        /\ Metrics(u).validTransitions = 1
        /\ Metrics(u).invalidAttempts = 1

\* C4: right after a recordStageTransition call the user's complianceScore is
\* validTransitions / totalStageTransitions * 100 * 0.6
\* + requiredFieldsCompliance * 0.4 of the counters as they then stand.
C4_ScoreAfterRecord ==
    [][\A u \in Users :
         Calls(u)' = Calls(u) + 1 =>
           LET m == Metrics(u)'
           IN scorecardStore'[u].complianceScore =
                RatAdd(Rat(60 * m.validTransitions, m.totalStageTransitions),
                       RatMul(m.requiredFieldsCompliance, Rat(2, 5)))]_vars

C4_Witness_HalfValidHalfFields ==
    \E u \in Users :
        /\ Calls(u) = 2
        /\ Metrics(u).validTransitions = 1
        /\ Metrics(u).requiredFieldsCompliance = Rat(0, 1)
        /\ scorecardStore[u].complianceScore = Rat(30, 1)

\* C5: every scorecard's complianceScore lies between 0 and 100.
C5_ScoreWithinRange ==
    \A u \in DOMAIN scorecardStore :
        /\ RatLeq(Rat(0, 1), scorecardStore[u].complianceScore)
        /\ RatLeq(scorecardStore[u].complianceScore, Rat(100, 1))

\* whether violationId is the id of a violation in that user's log
KnownPair(userId, violationId) ==
    \E i \in 1..Len(Logged(userId)) : Logged(userId)[i].id = violationId

ResolvedIn(list, violationId) ==
    \E i \in 1..Len(list) :
        /\ list[i].id = violationId
        /\ list[i].resolved
        /\ list[i].resolvedAt # NoDate

\* the step is a resolveViolation call that returned false
ResolveReturnedFalse == lastCall'.op = "resolveViolation" /\ ~lastCall'.returned

\* C6 as stated: resolving a pair that is not in the user's log returns
\* false and changes nothing; resolving a known pair returns true, sets
\* resolved with a defined resolvedAt, and the resolution shows both in
\* getUserViolations and in the scorecard's embedded list.
C6_ResolveShowsInBothLists ==
    /\ [](lastCall.op = "resolveViolation" =>
            /\ lastCall.returned <=> KnownPair(lastCall.userId, lastCall.violationId)
            /\ lastCall.returned =>
                 /\ ResolvedIn(getUserViolations(lastCall.userId, NoOptions),
                               lastCall.violationId)
                 /\ ResolvedIn(Embedded(lastCall.userId), lastCall.violationId))
    /\ [][ResolveReturnedFalse =>
            UNCHANGED <<scorecardStore, violationStore, violationObjects>>]_vars

\* C6 amended: the resolution shows in getUserViolations, and in the embedded
\* list whenever that list still holds the violation (a period reset clears
\* the list, not the log).
C6_ResolveShowsWhereHeld ==
    /\ [](lastCall.op = "resolveViolation" =>
            /\ lastCall.returned <=> KnownPair(lastCall.userId, lastCall.violationId)
            /\ lastCall.returned =>
                 /\ ResolvedIn(getUserViolations(lastCall.userId, NoOptions),
                               lastCall.violationId)
                 /\ (\E i \in 1..Len(Embedded(lastCall.userId)) :
                        Embedded(lastCall.userId)[i].id = lastCall.violationId)
                      => ResolvedIn(Embedded(lastCall.userId), lastCall.violationId))
    /\ [][ResolveReturnedFalse =>
            UNCHANGED <<scorecardStore, violationStore, violationObjects>>]_vars

C6_Witness_ResolvedInBoth ==
    /\ lastCall.op = "resolveViolation"
    /\ lastCall.returned
    /\ ResolvedIn(Logged(lastCall.userId), lastCall.violationId)
    /\ ResolvedIn(Embedded(lastCall.userId), lastCall.violationId)
    /\ \E w \in Users \ {lastCall.userId} : Logged(w) # <<>>

\* C7: every violation of a scorecard's embedded list is in that user's
\* violation log under the same id, and the two agree on resolved and
\* resolvedAt.
C7_DualWrite ==
    \A u \in DOMAIN scorecardStore :
        \A i \in 1..Len(Embedded(u)) :
            \E j \in 1..Len(Logged(u)) :
                /\ Logged(u)[j].id = Embedded(u)[i].id
                /\ Logged(u)[j].resolved = Embedded(u)[i].resolved
                /\ Logged(u)[j].resolvedAt = Embedded(u)[i].resolvedAt

C7_Witness_EmbeddedResolvedAfterReset ==
    \E u \in DOMAIN scorecardStore :
        /\ Len(Logged(u)) = 2
        /\ Len(Embedded(u)) = 1
        /\ Embedded(u)[1].resolved

(***************************************************************************)
(* Properties of POST /validate (checked under SpecRoute).                 *)
(***************************************************************************)
AlertsOf(userId) ==
    Cardinality({id \in DOMAIN alertStore : alertStore[id].userId = userId})

IsBefore(trace, first, second) ==
    \E i, j \in 1..Len(trace) : i < j /\ trace[i] = first /\ trace[j] = second

\* C8: a well-formed POST /validate that carries a userId records the outcome
\* once (the user's totalStageTransitions grows by one, on the side the
\* result's isValid says), creates one alert for the user exactly when the
\* result is invalid, and records before it alerts.
C8_UserIdRecordsOnce ==
    [][\A u \in Users :
         (lastCall'.op = "POST /validate" /\ lastCall'.status = 200
            /\ lastCall'.userId = u) =>
           /\ Total(u)' = Total(u) + 1
           /\ Calls(u)' = Calls(u) + 1
           /\ lastCall'.isValid =>
                /\ Metrics(u)'.invalidAttempts = (IF Has(scorecardStore, u)
                                                  THEN Metrics(u).invalidAttempts ELSE 0)
                /\ AlertsOf(u)' = AlertsOf(u)
           /\ ~lastCall'.isValid =>
                /\ Metrics(u)'.validTransitions = (IF Has(scorecardStore, u)
                                                   THEN Metrics(u).validTransitions ELSE 0)
                /\ AlertsOf(u)' = AlertsOf(u) + 1
                /\ IsBefore(lastCall'.trace, "recordStageTransition",
                            "createAlertFromViolation")]_vars

(***************************************************************************)
(* Rule lookup (checked under SpecEngine).                                 *)
(***************************************************************************)
\* the rule tables as declared, inactive rules included
Catalog(objectType) == IF objectType = "contact" THEN lifecycleStageRules ELSE dealStageRules

\* positions of the active rules of the catalog that match the request exactly
MatchingRules(req) ==
    {i \in 1..Len(Catalog(req.objectType)) :
       /\ Catalog(req.objectType)[i].active
       /\ Catalog(req.objectType)[i].fromStage = req.currentStage
       /\ Catalog(req.objectType)[i].toStage = req.targetStage}

\* C11: the rule applied to a request is the first active rule of the catalog
\* whose (fromStage, toStage) equal the request's stages exactly; its required
\* fields and conditions give the errors.  When no active rule matches, the
\* result has no errors and is valid whatever the properties are.
C11_ExactMatchOrNoErrors ==
    Validated =>
      IF MatchingRules(request) = {}
      THEN /\ getRuleForTransition(request.objectType, request.currentStage,
                                   request.targetStage) = <<>>
           /\ result.errors = <<>>
           /\ result.isValid
      ELSE LET first == CHOOSE i \in MatchingRules(request) :
                           \A j \in MatchingRules(request) : i <= j
               rule == Catalog(request.objectType)[first]
           IN /\ getRuleForTransition(request.objectType, request.currentStage,
                                      request.targetStage) = <<rule>>
              /\ result.errors = validateRequiredFields(rule.requiredFields, request.properties)
                                   \o validateConditions(rule.conditions, request.properties)

C11_Witness_NoRuleInvalidProperties ==
    /\ Validated
    /\ request.objectType = "contact"
    /\ request.currentStage = "lead"
    /\ request.targetStage = "salesqualifiedlead"
    /\ request.properties.phone = Undef
    /\ request.properties.email = Str(<<"a", "@", "b">>)
    /\ HasWarning("SKIPPED_STAGES")
    /\ result.isValid

(***************************************************************************)
(* Properties of the alert store (checked under SpecAlerts).               *)
(***************************************************************************)
Listed(alerts, alertId) == \E i \in 1..Len(alerts) : alerts[i].id = alertId

\* queries with the given acknowledged filter, with and without the other options
PortalQueries(acknowledged) ==
    [acknowledged : {acknowledged}, severity : {NoArg, "critical"},
     type : {NoArg, "required_field_missing"}, limit : {NoLimit, 1}]

UserQueries(acknowledged) ==
    [acknowledged : {acknowledged}, severity : {NoArg}, type : {NoArg}, limit : {NoLimit, 1}]

\* the query's severity and type filters, if any, are the alert's
FiltersAdmit(options, alert) ==
    /\ Truthy(options.severity) => options.severity = alert.severity
    /\ Truthy(options.type) => options.type = alert.type

\* alerts acknowledged at some time and still in the store
AcknowledgedAndKept == {id \in DOMAIN alertHistory : alertHistory[id].acknowledged /\ Has(alertStore, id)}

\* what acknowledgeAlert returned and wrote, when it was the last call
AcknowledgeOutcome ==
    lastCall.op = "acknowledgeAlert" =>
      /\ lastCall.returned <=> Has(alertStore, lastCall.alertId)
      /\ lastCall.returned =>
           /\ alertStore[lastCall.alertId].acknowledged
           /\ alertStore[lastCall.alertId].acknowledgedBy = lastCall.acknowledgedBy
           /\ alertStore[lastCall.alertId].acknowledgedAt # NoDate

AcknowledgeReturnedFalse == lastCall'.op = "acknowledgeAlert" /\ ~lastCall'.returned

ExcludedFromUnacknowledged ==
    \A id \in AcknowledgedAndKept :
       /\ \A q \in PortalQueries("false") :
             ~Listed(getPortalAlerts(alertHistory[id].portalId, q), id)
       /\ \A q \in UserQueries("false") :
             ~Listed(getUserAlerts(alertHistory[id].userId, q), id)

CreatedFor(userId) == {id \in DOMAIN alertHistory : alertHistory[id].userId = userId}
AcknowledgedOf(userId) == {id \in CreatedFor(userId) : alertHistory[id].acknowledged}

\* C13: after any sequence of createAlert, createAlertFromViolation,
\* acknowledgeAlert and cleanupOldAlerts, getUnacknowledgedAlertCount(userId)
\* is the number of alerts created for the user minus the number of those
\* that have been acknowledged.
C13_UnacknowledgedCount ==
    \A u \in Users :
       getUnacknowledgedAlertCount(u)
         = Cardinality(CreatedFor(u)) - Cardinality(AcknowledgedOf(u))

\* one of the user's alerts was acknowledged and deleted by cleanup, another is open
C13_Witness_CountAfterCleanup ==
    \E u \in Users :
       /\ \E id \in AcknowledgedOf(u) : ~Has(alertStore, id)
       /\ getUnacknowledgedAlertCount(u) = 1
       /\ Cardinality(CreatedFor(u)) = 2

(***************************************************************************)
(* Properties of the routes that call the engine (checked under SpecBatch).*)
(***************************************************************************)
\* bodies of POST /validate whose objectType is neither contact nor deal
MalformedBodies == {body \in Bodies : body.objectType \notin ObjectTypes}

\* C14: no request whose objectType is neither contact nor deal reaches
\* validateStageTransition: POST /validate answers it with an error and
\* leaves the scorecard and alert stores unchanged, and every element that
\* POST /validate/batch hands to validateStageTransition is a contact or a
\* deal.
C14_MalformedObjectTypeRejected ==
    /\ [](lastCall.op = "POST /validate/batch" =>
            \A i \in 1..Len(lastCall.reached) : lastCall.reached[i] \in ObjectTypes)
    /\ [][\A body \in MalformedBodies :
            PostValidate(body) =>
              /\ lastCall'.status = 400
              /\ lastCall'.trace = <<>>
              /\ UNCHANGED <<storeVars, alertVars>>]_vars

(***************************************************************************)
(* Properties of the scorecard queries (checked under Spec).               *)
(***************************************************************************)
\* C15: in every reachable state getAllScorecards returns every stored
\* scorecard exactly once, ordered non-increasing by complianceScore.
C15_AllScorecardsSorted ==
    \A order \in InsertionOrders :
       LET all == getAllScorecards(order)
       IN /\ Len(all) = Cardinality(DOMAIN scorecardStore)
          /\ \A u \in DOMAIN scorecardStore :
                Cardinality({i \in 1..Len(all) : all[i] = scorecardStore[u]}) = 1
          /\ \A i \in 1..(Len(all) - 1) :
                RatLeq(all[i + 1].complianceScore, all[i].complianceScore)

\* the scorecard created first has the lower score and is returned last
C15_Witness_LowerScoreCreatedFirst ==
    /\ DOMAIN scorecardStore = Users
    /\ scorecardStore["u1"].complianceScore # scorecardStore["u2"].complianceScore
    /\ RatLeq(scorecardStore["u1"].complianceScore, scorecardStore["u2"].complianceScore)
    /\ getAllScorecards(<<"u1", "u2">>)[1].userId = "u2"

(***************************************************************************)
(* Properties of the score and the field-compliance channel (checked       *)
(* under SpecFields).                                                      *)
(***************************************************************************)
\* in the given store, the user's score is the weighted formula of the metrics
Derived(store, userId) ==
    LET m == store[userId].metrics
    IN store[userId].complianceScore =
         IF m.totalStageTransitions = 0 THEN Rat(100, 1)
         ELSE RatAdd(Rat(60 * m.validTransitions, m.totalStageTransitions),
                     RatMul(m.requiredFieldsCompliance, Rat(2, 5)))

\* the score and the transition counters of the user are those of the other store
SameScoreAndCounters(store, other, userId) ==
    /\ store[userId].complianceScore = other[userId].complianceScore
    /\ store[userId].metrics.totalStageTransitions = other[userId].metrics.totalStageTransitions
    /\ store[userId].metrics.validTransitions = other[userId].metrics.validTransitions
    /\ store[userId].metrics.invalidAttempts = other[userId].metrics.invalidAttempts

\* C16 as stated: in every reachable state each scorecard's complianceScore
\* is 100 when totalStageTransitions is 0 and otherwise
\* validTransitions / totalStageTransitions * 100 * 0.6
\* + requiredFieldsCompliance * 0.4 of its current metrics.
C16_ScoreDerivedInEveryState == \A u \in DOMAIN scorecardStore : Derived(scorecardStore, u)

\* C16 amended: the score is 100 whenever no transition is counted; a step
\* that changes the score or a transition counter leaves the score equal to
\* the formula of the new metrics; the score differs from the formula only
\* after steps that leave score and counters as they were
\* (updateFieldsCompliance), until the next recordStageTransition or reset.
C16_ScoreDerivedUnlessFieldsUpdated ==
    /\ [](\A u \in DOMAIN scorecardStore :
            Metrics(u).totalStageTransitions = 0 =>
              scorecardStore[u].complianceScore = Rat(100, 1))
    /\ [][\A u \in Users :
            Has(scorecardStore', u) =>
              \/ Derived(scorecardStore', u)
              \/ /\ Has(scorecardStore, u)
                 /\ SameScoreAndCounters(scorecardStore', scorecardStore, u)]_vars

\* one valid transition, then all sampled fields non-compliant: the score
\* still reads 100 while the formula gives 60
C16_Witness_StaleAfterFieldsUpdate ==
    /\ Has(scorecardStore, FieldsUser)
    /\ Metrics(FieldsUser).totalStageTransitions = 1
    /\ Metrics(FieldsUser).validTransitions = 1
    /\ Metrics(FieldsUser).requiredFieldsCompliance = Rat(0, 1)
    /\ scorecardStore[FieldsUser].complianceScore = Rat(100, 1)

\* the scorecard updateFieldsCompliance writes to: the stored one, or the one
\* getOrCreateScorecard makes (score 100, trend stable, counters 0, no violations)
NoScorecard ==
    [metrics |-> createEmptyMetrics, complianceScore |-> Rat(100, 1), trend |-> "stable",
     violations |-> <<>>]
Before(userId) == IF Has(scorecardStore, userId) THEN scorecardStore[userId] ELSE NoScorecard

\* what updateFieldsCompliance(userId, _, totalFields, compliantFields) leaves behind
FieldsSampled(before, after, totalFields, compliantFields) ==
    /\ after.metrics.requiredFieldsCompliance =
         IF totalFields > 0 THEN Rat(compliantFields * 100, totalFields)
         ELSE before.metrics.requiredFieldsCompliance
    /\ after.complianceScore = before.complianceScore
    /\ after.trend = before.trend
    /\ after.metrics.totalStageTransitions = before.metrics.totalStageTransitions
    /\ after.metrics.validTransitions = before.metrics.validTransitions
    /\ after.metrics.invalidAttempts = before.metrics.invalidAttempts
    /\ after.metrics.dealsStagedCorrectly = before.metrics.dealsStagedCorrectly
    /\ after.metrics.contactsStagedCorrectly = before.metrics.contactsStagedCorrectly
    /\ after.metrics.averageStageVelocity = before.metrics.averageStageVelocity
    /\ after.violations = before.violations

\* C17: updateFieldsCompliance sets requiredFieldsCompliance to
\* compliantFields / totalFields * 100 when totalFields > 0 and leaves it
\* unchanged otherwise; either way complianceScore, trend, the transition
\* counters and the violations stay as they were; the score changes only in a
\* step that records a transition or resets the period, and a recorded
\* transition takes the sampled percentage into the score.
C17_FieldsUpdateLeavesScore ==
    /\ [][\A name \in UserNames, total \in TotalFieldsArgs, compliant \in CompliantFieldsArgs :
            UpdateFieldsCompliance(FieldsUser, name, total, compliant) =>
              /\ FieldsSampled(Before(FieldsUser), scorecardStore'[FieldsUser], total, compliant)
              /\ UNCHANGED <<violationStore, violationObjects>>]_vars
    /\ [][(/\ Has(scorecardStore, FieldsUser)
           /\ scorecardStore'[FieldsUser].complianceScore
                # scorecardStore[FieldsUser].complianceScore)
            => calls' # calls]_vars
    /\ [][(Has(calls', FieldsUser) /\ calls'[FieldsUser] > 0 /\ calls' # calls)
            => Derived(scorecardStore', FieldsUser)]_vars

\* no field compliant at the sample, then a second valid transition: the score is 60
C17_Witness_SampleEntersAtNextRecord ==
    /\ Has(scorecardStore, FieldsUser)
    /\ Metrics(FieldsUser).totalStageTransitions = 2
    /\ Metrics(FieldsUser).validTransitions = 2
    /\ Metrics(FieldsUser).requiredFieldsCompliance = Rat(0, 1)
    /\ scorecardStore[FieldsUser].complianceScore = Rat(60, 1)

(***************************************************************************)
(* Properties of the recorded violations (checked under SpecViolations).   *)
(***************************************************************************)
\* the embedded list and the log of the user in the given stores
EmbeddedIn(scorecards, objects, userId) ==
    IF Has(scorecards, userId)
    THEN [i \in 1..Len(scorecards[userId].violations) |->
            objects[scorecards[userId].violations[i]]]
    ELSE <<>>

LoggedIn(log, objects, userId) ==
    [i \in 1..Len(GetList(log, userId)) |-> objects[GetList(log, userId)[i]]]

\* the number of names in an optional missingFields argument
MissingCount(missingFields) == IF missingFields.given THEN Len(missingFields.fields) ELSE 0

\* after is before with exactly one violation appended, and that violation
\* is unresolved with the type and severity the missing fields call for
OneViolationAppended(before, after, missingFields) ==
    /\ Len(after) = Len(before) + 1
    /\ SubSeq(after, 1, Len(before)) = before
    /\ LET violation == after[Len(after)]
           n == MissingCount(missingFields)
       IN /\ ~violation.resolved
          /\ violation.violationType =
               IF n > 0 THEN "missing_required_field" ELSE "invalid_stage_progression"
          /\ violation.severity = IF n = 0 THEN "low"
                                  ELSE IF n \in 1..2 THEN "medium"
                                  ELSE IF n \in 3..4 THEN "high"
                                  ELSE "critical"

\* C18: recordStageTransition appends exactly one ComplianceViolation, the
\* same one to the scorecard's embedded list and to the user's log, if and
\* only if isValid is false and ruleId and ruleName are both supplied and
\* non-empty; otherwise both lists stay as they were.  The violation is
\* unresolved, of type missing_required_field when missingFields is non-empty
\* and invalid_stage_progression otherwise, and of severity low for 0 missing
\* fields, medium for 1-2, high for 3-4 and critical for 5 or more.
C18_ViolationIffInvalidWithRule ==
    [][\A name \in UserNames, args \in RecordArgs :
          RecordStageTransition(FieldsUser, name, "deal", "obj-1", "appointmentscheduled",
                                "qualifiedtobuy", args[1], args[2], args[3][1], args[3][2]) =>
            LET embedded == EmbeddedIn(scorecardStore, violationObjects, FieldsUser)
                embeddedAfter == EmbeddedIn(scorecardStore', violationObjects', FieldsUser)
                logged == LoggedIn(violationStore, violationObjects, FieldsUser)
                loggedAfter == LoggedIn(violationStore', violationObjects', FieldsUser)
            IN IF ~args[1] /\ args[3][1] \notin {NoArg, ""} /\ args[3][2] \notin {NoArg, ""}
               THEN /\ OneViolationAppended(embedded, embeddedAfter, args[2])
                    /\ OneViolationAppended(logged, loggedAfter, args[2])
                    /\ embeddedAfter[Len(embeddedAfter)] = loggedAfter[Len(loggedAfter)]
               ELSE /\ embeddedAfter = embedded
                    /\ loggedAfter = logged]_vars

\* a violation with five missing fields is the last of both lists, after one
\* with none
C18_Witness_CriticalAfterLow ==
    LET embedded == Embedded(FieldsUser)
        logged == Logged(FieldsUser)
    IN /\ Len(embedded) = 2
       /\ Len(logged) = 2
       /\ logged[1].severity = "low"
       /\ logged[1].violationType = "invalid_stage_progression"
       /\ logged[2].severity = "critical"
       /\ logged[2].violationType = "missing_required_field"
       /\ embedded[2] = logged[2]

(***************************************************************************)
(* Properties of the trend (checked under SpecTrend).                      *)
(***************************************************************************)
\* unresolved violations of the user's log timestamped within the last seven
\* days, and those older
RecentUnresolved(userId) ==
    Cardinality({i \in 1..Len(Logged(userId)) :
                   Logged(userId)[i].timestamp >= now - 7 /\ ~Logged(userId)[i].resolved})
OlderUnresolved(userId) ==
    Cardinality({i \in 1..Len(Logged(userId)) :
                   Logged(userId)[i].timestamp < now - 7 /\ ~Logged(userId)[i].resolved})

\* C19: right after a recordStageTransition for a user the scorecard's trend
\* is stable when the user's log holds fewer than 5 violations; otherwise it
\* is improving when fewer unresolved violations are of the last 7 days than
\* older, declining when more are, and stable when as many are.
C19_TrendAfterRecord ==
    lastCall.op = "recordStageTransition" =>
      LET u == lastCall.userId
      IN scorecardStore[u].trend =
           IF Len(Logged(u)) < 5 THEN "stable"
           ELSE IF RecentUnresolved(u) < OlderUnresolved(u) THEN "improving"
           ELSE IF RecentUnresolved(u) > OlderUnresolved(u) THEN "declining"
           ELSE "stable"

\* five logged violations, three of them from before the week: improving
C19_Witness_ImprovingAfterFifth ==
    /\ lastCall.op = "recordStageTransition"
    /\ Len(Logged(FieldsUser)) = 5
    /\ OlderUnresolved(FieldsUser) = 3
    /\ RecentUnresolved(FieldsUser) = 2
    /\ scorecardStore[FieldsUser].trend = "improving"

(***************************************************************************)
(* Properties of the period reset (checked under SpecPeriod).              *)
(***************************************************************************)
\* the scorecard is one that resetScorecardForNewPeriod leaves behind
PeriodCleared(scorecard) ==
    /\ scorecard.metrics.totalStageTransitions = 0
    /\ scorecard.metrics.validTransitions = 0
    /\ scorecard.metrics.invalidAttempts = 0
    /\ scorecard.metrics.dealsStagedCorrectly = 0
    /\ scorecard.metrics.contactsStagedCorrectly = 0
    /\ scorecard.metrics.averageStageVelocity = 0
    /\ scorecard.metrics.requiredFieldsCompliance = Rat(100, 1)
    /\ scorecard.complianceScore = Rat(100, 1)
    /\ scorecard.violations = <<>>

\* C20: resetScorecardForNewPeriod(userId) on an existing scorecard zeroes
\* the transition counters, restores requiredFieldsCompliance and
\* complianceScore to 100 and empties the embedded violations, and leaves the
\* violation log of every user (length, entries, resolution state), the
\* scorecard's userId and userName and every other user's scorecard as they
\* were; on a user without scorecard it changes nothing and creates none.
C20_ResetKeepsLog ==
    [][\A u \in Users :
         ResetScorecardForNewPeriod(u) =>
           /\ UNCHANGED <<violationStore, violationObjects>>
           /\ DOMAIN scorecardStore' = DOMAIN scorecardStore
           /\ \A other \in DOMAIN scorecardStore \ {u} :
                 scorecardStore'[other] = scorecardStore[other]
           /\ Has(scorecardStore, u) =>
                 /\ PeriodCleared(scorecardStore'[u])
                 /\ scorecardStore'[u].userId = scorecardStore[u].userId
                 /\ scorecardStore'[u].userName = scorecardStore[u].userName]_vars

\* u1 was reset after a 0% sample and a resolved violation: the scorecard is
\* cleared, the log still holds the resolved violation, u2 keeps its counters
C20_Witness_ClearedWithLogKept ==
    /\ Has(scorecardStore, "u1")
    /\ Has(calls, "u1")
    /\ calls["u1"] = 0
    /\ PeriodCleared(scorecardStore["u1"])
    /\ Len(Logged("u1")) = 1
    /\ Logged("u1")[1].resolved
    /\ Has(scorecardStore, "u2")
    /\ Metrics("u2").totalStageTransitions = 1
    /\ Metrics("u2").requiredFieldsCompliance = Rat(0, 1)

(***************************************************************************)
(* Properties of the alert cleanup (checked under SpecAlerts).             *)
(***************************************************************************)
\* ids an index still lists although the alert is gone from the store
Dangling == {id \in DOMAIN alertHistory : ~Has(alertStore, id)}

\* every alert a portal or user query returns is a stored alert
QueriesReturnStoredAlerts ==
    /\ \A portalId \in Portals, ack \in {"undefined", "true", "false"} :
          \A q \in PortalQueries(ack) :
             LET alerts == getPortalAlerts(portalId, q)
             IN \A i \in 1..Len(alerts) :
                   Has(alertStore, alerts[i].id) /\ alerts[i] = alertStore[alerts[i].id]
    /\ \A u \in Users, ack \in {"undefined", "true", "false"} :
          \A q \in UserQueries(ack) :
             LET alerts == getUserAlerts(u, q)
             IN \A i \in 1..Len(alerts) :
                   Has(alertStore, alerts[i].id) /\ alerts[i] = alertStore[alerts[i].id]

\* C21: cleanupOldAlerts(olderThanDays) removes from the alert store exactly
\* the alerts that are older than the cutoff and acknowledged and returns
\* their number; the alerts it keeps (every unacknowledged one among them)
\* are unchanged, the portal and user indices are unchanged, and every later
\* getPortalAlerts/getUserAlerts call returns stored alerts only.
C21_CleanupDeletesOldAcknowledged ==
    /\ [][\A days \in CleanupArgs :
            CleanupOldAlerts(days) =>
              LET old == {id \in DOMAIN alertStore :
                            alertStore[id].timestamp < now - days /\ alertStore[id].acknowledged}
              IN /\ DOMAIN alertStore' = DOMAIN alertStore \ old
                 /\ \A id \in DOMAIN alertStore' : alertStore'[id] = alertStore[id]
                 /\ \A id \in DOMAIN alertStore :
                       ~alertStore[id].acknowledged => Has(alertStore', id)
                 /\ lastCall'.returned = Cardinality(old)
                 /\ UNCHANGED <<alertsByPortal, alertsByUser>>]_vars
    /\ []QueriesReturnStoredAlerts

\* cleanup deleted one acknowledged alert and kept an unacknowledged one of
\* the same age; the index of the portal still lists both
C21_Witness_DanglingIdSkipped ==
    /\ lastCall.op = "cleanupOldAlerts"
    /\ lastCall.returned = 1
    /\ \E gone \in Dangling, kept \in DOMAIN alertStore :
          /\ ~alertStore[kept].acknowledged
          /\ alertStore[kept].timestamp < now - lastCall.olderThanDays
          /\ alertHistory[kept].portalId = alertHistory[gone].portalId
          /\ Len(GetList(alertsByPortal, alertHistory[gone].portalId)) = 2
          /\ Len(getPortalAlerts(alertHistory[gone].portalId, NoAlertOptions)) = 1

(***************************************************************************)
(* Properties of the queries (checked under SpecQueries).                  *)
(***************************************************************************)
\* C22: the queries are read-only: getUserViolations, with any combination
\* of options, leaves the scorecard store, the violation logs (the stored
\* order of their entries included) and the alert store and indices
\* unchanged.
C22_QueriesReadOnly ==
    [][\A options \in ViolationQueries :
         GetUserViolations(FieldsUser, options) =>
           UNCHANGED <<scorecardStore, violationStore, violationObjects, alertVars>>]_vars

\* limited is the first limit entries of full
TruncatedTo(limited, full, limit) ==
    /\ Len(limited) <= limit
    /\ limited = SubSeq(full, 1, IF limit < Len(full) THEN limit ELSE Len(full))

\* limits given to the queries
Limits == {0, 1, 2}

\* C23: whenever a limit is given to getUserViolations, getPortalAlerts or
\* getUserAlerts, the result is the first limit entries of the filtered list
\* sorted by timestamp descending, so it has at most limit entries, for every
\* non-negative limit, 0 included.
C23_LimitTruncates ==
    \A limit \in Limits :
       /\ \A u \in Users, q \in ViolationQueries :
             TruncatedTo(getUserViolations(u, [q EXCEPT !.limit = limit]),
                         getUserViolations(u, [q EXCEPT !.limit = NoLimit]), limit)
       /\ \A portalId \in Portals, ack \in {"undefined", "true", "false"} :
             \A q \in PortalQueries(ack) :
                TruncatedTo(getPortalAlerts(portalId, [q EXCEPT !.limit = limit]),
                            getPortalAlerts(portalId, [q EXCEPT !.limit = NoLimit]), limit)
       /\ \A u \in Users, ack \in {"undefined", "true", "false"} :
             \A q \in UserQueries(ack) :
                TruncatedTo(getUserAlerts(u, [q EXCEPT !.limit = limit]),
                            getUserAlerts(u, [q EXCEPT !.limit = NoLimit]), limit)

(***************************************************************************)
(* Properties of the engine and the catalog (checked under SpecEngine).    *)
(***************************************************************************)
\* the error messages of the dependencies of the object type's rules
DependencyMessages(objectType) ==
    UNION {{Catalog(objectType)[i].dependencies[j].errorMessage :
              j \in 1..Len(Catalog(objectType)[i].dependencies)} :
           i \in 1..Len(Catalog(objectType))}

\* the fields the rule's required-field checks and conditions read
CheckedFields(rule) ==
    {rule.requiredFields[i].field : i \in 1..Len(rule.requiredFields)}
      \cup {rule.conditions[i].field : i \in 1..Len(rule.conditions)}

\* the request is one of the two transitions whose rule checks no property
ChecksNothing(req) ==
    \/ req.objectType = "contact" /\ req.currentStage = "opportunity"
         /\ req.targetStage = "customer"
    \/ req.objectType = "deal" /\ req.currentStage = "decisionmakerboughtin"
         /\ req.targetStage = "contractsent"

RuleCode(id) ==
    CASE id = "lifecycle-lead-to-mql" -> "LIFECYCLE_LEAD_TO_MQL"
      [] id = "lifecycle-mql-to-sql" -> "LIFECYCLE_MQL_TO_SQL"
      [] id = "lifecycle-sql-to-opportunity" -> "LIFECYCLE_SQL_TO_OPPORTUNITY"
      [] id = "lifecycle-opportunity-to-customer" -> "LIFECYCLE_OPPORTUNITY_TO_CUSTOMER"
      [] id = "deal-appointment-to-qualified" -> "DEAL_APPOINTMENT_TO_QUALIFIED"
      [] id = "deal-qualified-to-presentation" -> "DEAL_QUALIFIED_TO_PRESENTATION"
      [] id = "deal-presentation-to-decision" -> "DEAL_PRESENTATION_TO_DECISION"
      [] id = "deal-decision-to-contract" -> "DEAL_DECISION_TO_CONTRACT"
      [] id = "deal-contract-to-won" -> "DEAL_CONTRACT_TO_WON"

\* fieldErrors.map((e) => e.field).join(', ')
RECURSIVE JoinFields(_)
JoinFields(fieldErrors) ==
    IF fieldErrors = <<>> THEN ""
    ELSE IF Len(fieldErrors) = 1 THEN fieldErrors[1].field
    ELSE fieldErrors[1].field \o ", " \o JoinFields(Tail(fieldErrors))

getValidationRules(objectType) == getRulesForObjectType(objectType)

RECURSIVE RuleWarnings(_, _)
RuleWarnings(rules, properties) ==
    IF rules = <<>> THEN <<>>
    ELSE LET rule == Head(rules)
             fieldErrors == validateRequiredFields(rule.requiredFields, properties)
         IN (IF Len(fieldErrors) > 0
             THEN << [code |-> "RULE_" \o RuleCode(rule.id),
                      message |-> "Rule \"" \o rule.name \o "\" would fail for this record",
                      recommendation |-> "Missing fields: " \o JoinFields(fieldErrors)] >>
             ELSE <<>>)
            \o RuleWarnings(Tail(rules), properties)

validateAllRules(objectType, properties) ==
    [isValid |-> TRUE, errors |-> <<>>, warnings |-> RuleWarnings(getValidationRules(objectType), properties)]

AllRulesRequests ==
    UNION {[objectType : {ot}, properties : PropertyMaps(ot)] : ot \in ObjectTypes}

InitAllRules ==
    /\ request \in AllRulesRequests
    /\ result = NoResult
    /\ InitStores

ValidateAllRules ==
    /\ result = NoResult
    /\ result' = validateAllRules(request.objectType, request.properties)
    /\ UNCHANGED <<request, hostVars, storeVars, alertVars, now, lastCall>>

NextAllRules == ValidateAllRules

SpecAllRules == InitAllRules /\ [][NextAllRules]_vars

\* the rule would fail for the properties: some required-field check or some
\* condition of the rule yields an error
WouldFail(rule, properties) ==
    \/ validateRequiredFields(rule.requiredFields, properties) # <<>>
    \/ validateConditions(rule.conditions, properties) # <<>>

\* C25: validateAllRules always returns isValid = true with no errors, and for
\* each active rule of the object type the result carries that rule's
\* RULE_<ID> warning if and only if the rule would fail for the properties
\* (a required-field check or a condition of the rule fails).
C25_EveryFailingRuleWarned ==
    Validated =>
       /\ result.isValid
       /\ result.errors = <<>>
       /\ \A i \in 1..Len(Catalog(request.objectType)) :
            LET rule == Catalog(request.objectType)[i]
            IN rule.active =>
                 (HasWarning("RULE_" \o RuleCode(rule.id)) <=> WouldFail(rule, request.properties))

\* the same with "would fail" read as the required-field checks alone
C25_RequiredFieldFailuresWarned ==
    Validated =>
       /\ result.isValid
       /\ result.errors = <<>>
       /\ \A i \in 1..Len(Catalog(request.objectType)) :
            LET rule == Catalog(request.objectType)[i]
            IN rule.active =>
                 (HasWarning("RULE_" \o RuleCode(rule.id))
                    <=> validateRequiredFields(rule.requiredFields, request.properties) # <<>>)

\* a deal with amount "0": the presentation-to-decision condition fails
C25_Witness_ConditionOnlyFailure ==
    /\ Validated
    /\ request.objectType = "deal"
    /\ request.properties["amount"] = Str(<<"0">>)
    /\ \E i \in 1..Len(Catalog("deal")) :
         /\ Catalog("deal")[i].id = "deal-presentation-to-decision"
         /\ WouldFail(Catalog("deal")[i], request.properties)
    /\ ~HasWarning("RULE_DEAL_PRESENTATION_TO_DECISION")

(***************************************************************************)
(* Concurrent requests.  The host is single-threaded: a request that has   *)
(* arrived waits until the event loop runs its handler, and the handler    *)
(* runs until its first await.  The POST /validate handler, the resolve    *)
(* route and the acknowledge route contain no await, so each is one step;  *)
(* the requests waiting at any moment may be handled in any order.         *)
(***************************************************************************)
MaxArrived == 2   \* POST /validate requests received in one run

NoRead == 0 - 1

\* an invalid and a valid lead -> MQL transition for each user, portal 1
ConcurrentBodies ==
    {body \in Bodies :
       /\ body.userId \in Users
       /\ body.portalId = 1
       /\ body.objectType = "contact"
       /\ body.currentStage = "lead"
       /\ body.properties # NoProperties
       /\ body.properties # NoProps}

\* a POST /validate request reaches the server
ReceiveValidate(body) ==
    /\ Len(arrived) < MaxArrived
    /\ arrived' = Append(arrived, [body |-> body, pc |-> "received", read |-> NoRead])
    /\ lastCall' = NoCall
    /\ UNCHANGED <<engineVars, oauthVars, storeVars, alertVars, now>>

\* a handler that yields between reading the scorecard and writing it back
HandleValidateYielding(i) ==
    LET body == arrived[i].body
    IN \/ /\ arrived[i].pc = "received"
          /\ arrived' = [arrived EXCEPT ![i].pc = "suspended", ![i].read = Total(body.userId)]
          /\ lastCall' = NoCall
          /\ UNCHANGED <<engineVars, oauthVars, storeVars, alertVars, now>>
       \/ /\ arrived[i].pc = "suspended"
          /\ arrived' = [arrived EXCEPT ![i].pc = "responded"]
          /\ scorecardStore' =
               LET created == getOrCreateScorecard(scorecardStore, body.userId, body.userId, now)
               IN [created EXCEPT ![body.userId].metrics.totalStageTransitions = arrived[i].read + 1]
          /\ lastCall' = NoCall
          /\ UNCHANGED <<engineVars, oauthVars, violationStore, violationObjects, generated,
                         calls, alertVars, now>>

\* the event loop runs the handler of a waiting request, to completion;
\* read is the totalStageTransitions that recordStageTransition increments
HandleValidate(i) ==
    /\ arrived[i].pc = "received"
    /\ PostValidate(arrived[i].body)
    /\ arrived' = [arrived EXCEPT ![i].pc = "responded",
                                  ![i].read = Total(arrived[i].body.userId)]

NextConcurrent ==
    \/ \E body \in ConcurrentBodies : ReceiveValidate(body)
    \/ \E i \in 1..Len(arrived) : HandleValidate(i)
    \/ \E u \in Users, id \in ViolationIds : ResolveViolation(u, id)
    \/ \E id \in AlertIds : AcknowledgeAlert(id, "admin")

SpecConcurrent == Init /\ [][NextConcurrent]_vars

\* the requests of a user whose handler has finished, all or the invalid ones
Responded(userId) ==
    {i \in 1..Len(arrived) : arrived[i].pc = "responded" /\ arrived[i].body.userId = userId}

RespondedInvalid(userId) ==
    {i \in Responded(userId) :
       ~validateStageTransition(
           [objectType |-> arrived[i].body.objectType, objectId |-> arrived[i].body.objectId,
            currentStage |-> arrived[i].body.currentStage,
            targetStage |-> arrived[i].body.targetStage,
            properties |-> arrived[i].body.properties]).isValid}

\* C26: under any interleaving of concurrently received POST /validate
\* requests with resolve and acknowledge calls, every handler runs whole: no
\* request is left between its read and its write, each user's
\* totalStageTransitions, invalidAttempts and violation log count exactly the
\* handled requests (no update is lost), the score is the one recomputed from
\* the written counters, and no two handled requests of one user read the same
\* totalStageTransitions.
C26_StoreMutationsAtomic ==
    /\ \A i \in 1..Len(arrived) : arrived[i].pc \in {"received", "responded"}
    /\ \A u \in Users :
         /\ Total(u) = Cardinality(Responded(u))
         /\ Has(scorecardStore, u) =>
              /\ scorecardStore[u].metrics.invalidAttempts = Cardinality(RespondedInvalid(u))
              /\ scorecardStore[u].complianceScore =
                   calculateComplianceScore(scorecardStore[u].metrics)
         /\ Len(GetList(violationStore, u)) = Cardinality(RespondedInvalid(u))
         /\ \A i, j \in Responded(u) : i # j => arrived[i].read # arrived[j].read

\* two invalid requests of u1 waiting together, the later one handled first
C26_Witness_TwoInvalidInterleaved ==
    /\ Len(arrived) >= 2
    /\ {1, 2} \subseteq RespondedInvalid("u1")
    /\ arrived[2].read = 0
    /\ arrived[1].read = 1
    /\ scorecardStore["u1"].metrics.totalStageTransitions = 2
    /\ \E id \in DOMAIN violationObjects : violationObjects[id].resolved

(***************************************************************************)
(* The stored trend against the trend rule (checked under SpecTrendReset:  *)
(* the trend harness with resetScorecardForNewPeriod added).               *)
(***************************************************************************)
NextTrendReset ==
    \/ NextTrend
    \/ ResetScorecardForNewPeriod(FieldsUser)

SpecTrendReset == Init /\ [][NextTrendReset]_vars

\* what the trend rule gives for the log as it stands
RuleTrend(userId) ==
    IF Len(Logged(userId)) < 5 THEN "stable"
    ELSE IF RecentUnresolved(userId) < OlderUnresolved(userId) THEN "improving"
    ELSE IF RecentUnresolved(userId) > OlderUnresolved(userId) THEN "declining"
    ELSE "stable"

\* C27 as stated: in every reachable state each scorecard's trend equals the
\* value the trend rule derives from the user's current violation log, also
\* after resolveViolation and after resetScorecardForNewPeriod.
C27_TrendDerivedInEveryState ==
    \A u \in DOMAIN scorecardStore : scorecardStore[u].trend = RuleTrend(u)

\* C27: the trend is recomputed by recordStageTransition alone.  Right after
\* a recordStageTransition the scorecard's trend is the value the trend rule
\* derives from the user's violation log; every other step (resolveViolation,
\* resetScorecardForNewPeriod, the passing of days) leaves the stored trend of
\* every scorecard as it was, whatever the rule gives for the log by then.
C27_TrendRecomputedOnRecordOnly ==
    /\ [](lastCall.op = "recordStageTransition"
            => scorecardStore[lastCall.userId].trend = RuleTrend(lastCall.userId))
    /\ [][lastCall'.op # "recordStageTransition"
            => \A u \in DOMAIN scorecardStore :
                  /\ u \in DOMAIN scorecardStore'
                  /\ scorecardStore'[u].trend = scorecardStore[u].trend]_vars

\* five violations logged in one day, then all resolved: the stored trend is
\* still declining while the rule gives stable
C27_Witness_StaleAfterResolve ==
    /\ lastCall.op = "resolveViolation"
    /\ lastCall.returned
    /\ now = 0
    /\ scorecardStore[FieldsUser].trend = "declining"
    /\ RuleTrend(FieldsUser) = "stable"

(***************************************************************************)
(* Counter harness: each step is one scorecard operation addressed to one  *)
(* of two users.  u1 works on contacts and deals and samples its field     *)
(* compliance; u2 works on deals.                                          *)
(***************************************************************************)
\* u1 records valid contacts, valid deals and invalid deals, u2 valid and
\* invalid deals
CountedOutcomes(userId) ==
    IF userId = "u1" THEN {<<"contact", TRUE>>, <<"deal", TRUE>>, <<"deal", FALSE>>}
    ELSE {<<"deal", FALSE>>, <<"deal", TRUE>>}

CallFor(userId) ==
    \/ \E name \in UserNames : GetOrCreateScorecard(userId, name)
    \/ \E name \in UserNames, outcome \in CountedOutcomes(userId) :
          RecordStageTransition(userId, name, outcome[1], "obj-1", "appointmentscheduled",
                                "qualifiedtobuy", outcome[2], Fields(<<"amount">>),
                                "rule-1", "Test Rule")
    \/ \E name \in UserNames : userId = "u1" /\ UpdateFieldsCompliance(userId, name, 1, 0)
    \/ \E id \in ViolationIds : ResolveViolation(userId, id)
    \/ ResetScorecardForNewPeriod(userId)

NextCounters == \E u \in Users : CallFor(u)

SpecCounters == Init /\ [][NextCounters]_vars

\* a user's scorecard with the contents of its embedded violations, and the
\* user's violation log, in the given stores
ScorecardIn(scorecards, objects, userId) ==
    IF Has(scorecards, userId)
    THEN <<scorecards[userId], EmbeddedIn(scorecards, objects, userId)>>
    ELSE <<>>

CountersAgree(metrics) ==
    /\ metrics.totalStageTransitions = metrics.validTransitions + metrics.invalidAttempts
    /\ metrics.validTransitions = metrics.contactsStagedCorrectly + metrics.dealsStagedCorrectly

\* C28: under any sequence of getOrCreateScorecard, recordStageTransition,
\* updateFieldsCompliance, resolveViolation and resetScorecardForNewPeriod
\* across two users, every scorecard has totalStageTransitions =
\* validTransitions + invalidAttempts and validTransitions =
\* contactsStagedCorrectly + dealsStagedCorrectly, and an operation addressed
\* to one user leaves the other user's scorecard and violation log unchanged.
C28_CountersAgreePerUser ==
    /\ [](\A u \in DOMAIN scorecardStore : CountersAgree(scorecardStore[u].metrics))
    /\ [][\A u \in Users :
            \/ \A v \in Users \ {u} :
                  /\ ScorecardIn(scorecardStore', violationObjects', v)
                       = ScorecardIn(scorecardStore, violationObjects, v)
                  /\ LoggedIn(violationStore', violationObjects', v)
                       = LoggedIn(violationStore, violationObjects, v)
            \/ ~CallFor(u)]_vars

\* u1 with a valid contact and an invalid deal, u2 with a valid deal and a
\* violation of its own
C28_Witness_TwoUsersCounted ==
    /\ Has(scorecardStore, "u1") /\ Has(scorecardStore, "u2")
    /\ scorecardStore["u1"].metrics.totalStageTransitions = 2
    /\ scorecardStore["u1"].metrics.contactsStagedCorrectly = 1
    /\ scorecardStore["u1"].metrics.invalidAttempts = 1
    /\ scorecardStore["u1"].metrics.requiredFieldsCompliance = Rat(0, 1)
    /\ scorecardStore["u2"].metrics.requiredFieldsCompliance = Rat(100, 1)
    /\ scorecardStore["u2"].metrics.dealsStagedCorrectly = 1
    /\ scorecardStore["u2"].metrics.invalidAttempts = 1
    /\ Len(GetList(violationStore, "u1")) = 1
    /\ Len(GetList(violationStore, "u2")) = 1
    /\ violationObjects[GetList(violationStore, "u1")[1]].resolved
    /\ ~violationObjects[GetList(violationStore, "u2")[1]].resolved

(***************************************************************************)
(* The shape of the shipped catalog (checked under SpecEngine).            *)
(***************************************************************************)
\* every rule of the catalog joins two ranked stages, the second ranked one
\* above the first
RankAdjacent(objectType) ==
    \A i \in 1..Len(Catalog(objectType)) :
       LET rule == Catalog(objectType)[i]
       IN /\ Ranked(objectType, rule.fromStage)
          /\ Ranked(objectType, rule.toStage)
          /\ Rank(objectType, rule.toStage) = Rank(objectType, rule.fromStage) + 1

\* no two active rules of the object type share a (fromStage, toStage) pair
PairsUnique(objectType) ==
    \A i, j \in 1..Len(Catalog(objectType)) :
       LET a == Catalog(objectType)[i]
           b == Catalog(objectType)[j]
       IN (i # j /\ a.active /\ b.active)
            => ~(a.fromStage = b.fromStage /\ a.toStage = b.toStage)

\* C29: every rule of the shipped catalog connects rank-adjacent stages in
\* the forward direction and no two active rules of one object type share a
\* (fromStage, toStage) pair; so a request that matches a rule gets neither a
\* BACKWARD_PROGRESSION nor a SKIPPED_STAGES warning, and no request gets
\* both warnings at once.
C29_CatalogForwardAdjacent ==
    /\ \A objectType \in ObjectTypes : RankAdjacent(objectType) /\ PairsUnique(objectType)
    /\ Validated =>
         /\ MatchingRules(request) # {} =>
              /\ Cardinality(MatchingRules(request)) = 1
              /\ ~HasWarning("BACKWARD_PROGRESSION")
              /\ ~HasWarning("SKIPPED_STAGES")
              /\ result.warnings = <<>>
         /\ ~(HasWarning("BACKWARD_PROGRESSION") /\ HasWarning("SKIPPED_STAGES"))

\* a request that matches the SQL -> opportunity rule and fails it: errors, no warning
C29_Witness_MatchedWithoutWarning ==
    /\ Validated
    /\ request.objectType = "contact"
    /\ request.currentStage = "salesqualifiedlead"
    /\ request.targetStage = "opportunity"
    /\ MatchingRules(request) # {}
    /\ result.errors # <<>>
    /\ result.warnings = <<>>

(***************************************************************************)
(* OAuth token service.  exchangeCodeForTokens and refreshAccessToken      *)
(* suspend at `await axios.post(HUBSPOT_TOKEN_URL, ...)`; while a call is  *)
(* suspended any other handler may run.  A token is the number of the      *)
(* grant that issued it (1 for the authorization code, then one more per   *)
(* refresh); expires_in is one day, and the five-minute expiration buffer  *)
(* is less than the clock's unit, so a token counts as expired once the    *)
(* clock has reached expiresAt.                                            *)
(***************************************************************************)
MaxAwaiting == 2   \* calls suspended at the token endpoint at one time
MaxGrants == 2     \* the highest token number the endpoint issues
ExpiresIn == 1     \* response.data.expires_in, in days

NoToken == 0       \* null / no token

OAuthTokens(grant, portalId, clock) ==
    [accessToken |-> grant, refreshToken |-> grant, expiresAt |-> clock + ExpiresIn,
     tokenType |-> "bearer", portalId |-> portalId]

isAuthenticated(portalId) == Has(tokenStore, portalId)

\* new Date(tokens.expiresAt).getTime() - expirationBuffer < Date.now()
IsExpired(tokens) == tokens.expiresAt <= now

Resume(i) == [k \in 1..(Len(awaiting) - 1) |-> IF k < i THEN awaiting[k] ELSE awaiting[k + 1]]

\* exchangeCodeForTokens up to its await
ExchangeCodeForTokens(portalId) ==
    /\ Len(awaiting) < MaxAwaiting
    /\ awaiting' = Append(awaiting, [op |-> "exchangeCodeForTokens", portalId |-> portalId,
                                     refreshToken |-> NoToken])
    /\ lastCall' = NoCall
    /\ UNCHANGED <<engineVars, arrived, tokenStore, disconnected, storeVars, alertVars, now>>

\* refreshAccessToken up to its await, or to its early return
RefreshAccessToken(portalId, caller) ==
    IF ~Has(tokenStore, portalId)
    THEN /\ lastCall' = [op |-> caller, portalId |-> portalId, success |-> FALSE,
                         accessToken |-> NoToken]
         /\ UNCHANGED <<engineVars, hostVars, storeVars, alertVars, now>>
    ELSE /\ Len(awaiting) < MaxAwaiting
         /\ tokenStore[portalId].refreshToken < MaxGrants
         /\ awaiting' = Append(awaiting, [op |-> caller, portalId |-> portalId,
                                          refreshToken |-> tokenStore[portalId].refreshToken])
         /\ lastCall' = NoCall
         /\ UNCHANGED <<engineVars, arrived, tokenStore, disconnected, storeVars, alertVars, now>>

\* getAccessToken up to its return, or to the await of the refresh it starts
GetAccessToken(portalId) ==
    IF ~Has(tokenStore, portalId)
    THEN /\ lastCall' = [op |-> "getAccessToken", portalId |-> portalId, success |-> FALSE,
                         accessToken |-> NoToken]
         /\ UNCHANGED <<engineVars, hostVars, storeVars, alertVars, now>>
    ELSE IF IsExpired(tokenStore[portalId])
    THEN RefreshAccessToken(portalId, "getAccessToken")
    ELSE /\ lastCall' = [op |-> "getAccessToken", portalId |-> portalId, success |-> TRUE,
                         accessToken |-> tokenStore[portalId].accessToken]
         /\ UNCHANGED <<engineVars, hostVars, storeVars, alertVars, now>>

\* the token endpoint answers a suspended call with tokens: the rest of the try block
TokenEndpointAnswers(i) ==
    LET call == awaiting[i]
        grant == IF call.op = "exchangeCodeForTokens" THEN 1 ELSE call.refreshToken + 1
    IN /\ tokenStore' = Put(tokenStore, call.portalId, OAuthTokens(grant, call.portalId, now))
       /\ disconnected' = IF call.op = "exchangeCodeForTokens"
                          THEN disconnected \ {call.portalId} ELSE disconnected
       /\ awaiting' = Resume(i)
       /\ lastCall' = [op |-> call.op, portalId |-> call.portalId, success |-> TRUE,
                       accessToken |-> grant]
       /\ UNCHANGED <<engineVars, arrived, storeVars, alertVars, now>>

\* the token endpoint request fails: the catch block
TokenEndpointFails(i) ==
    LET call == awaiting[i]
    IN /\ awaiting' = Resume(i)
       /\ lastCall' = [op |-> call.op, portalId |-> call.portalId, success |-> FALSE,
                       accessToken |-> NoToken]
       /\ UNCHANGED <<engineVars, arrived, tokenStore, disconnected, storeVars, alertVars, now>>

\* POST /oauth/disconnect/:portalId
RemoveTokens(portalId) ==
    /\ tokenStore' = [p \in DOMAIN tokenStore \ {portalId} |-> tokenStore[p]]
    /\ disconnected' = disconnected \cup {portalId}
    /\ lastCall' = NoCall
    /\ UNCHANGED <<engineVars, arrived, awaiting, storeVars, alertVars, now>>

NextOAuth ==
    \/ \E portalId \in Portals : ExchangeCodeForTokens(portalId)
    \/ \E portalId \in Portals : RefreshAccessToken(portalId, "refreshAccessToken")
    \/ \E portalId \in Portals : GetAccessToken(portalId)
    \/ \E i \in 1..Len(awaiting) : TokenEndpointAnswers(i)
    \/ \E i \in 1..Len(awaiting) : TokenEndpointFails(i)
    \/ \E portalId \in Portals : RemoveTokens(portalId)
    \/ Tick

SpecOAuth == Init /\ [][NextOAuth]_vars

\* a refresh that fails leaves the token store as it was
FailedRefreshKeepsTokens ==
    [][\A i \in 1..Len(awaiting) : TokenEndpointFails(i) => tokenStore' = tokenStore]_vars

\* C30: once removeTokens(portalId) has completed, isAuthenticated(portalId)
\* is false and getAccessToken(portalId) returns null until a later
\* successful exchangeCodeForTokens for the portal, also when a
\* refreshAccessToken or getAccessToken call for the portal was awaiting the
\* token endpoint at the moment of the disconnect; and a refresh that fails
\* leaves the stored tokens unchanged.
C30_DisconnectedUntilExchange ==
    /\ [](\A portalId \in disconnected : ~isAuthenticated(portalId))
    /\ []((lastCall.op = "getAccessToken" /\ lastCall.portalId \in disconnected)
            => lastCall.accessToken = NoToken)
    /\ FailedRefreshKeepsTokens

\* the portal is authenticated again after a disconnect, by a refresh that
\* was awaiting the token endpoint when removeTokens ran
C30_AuthenticatedAfterDisconnect ==
    /\ 1 \in disconnected
    /\ isAuthenticated(1)
    /\ lastCall.op = "refreshAccessToken"
    /\ lastCall.success
    /\ tokenStore[1].accessToken = 2
====
